---- MODULE Spec2Model ----
(***************************************************************************)
(* Module reference discovery of turbopack:                                *)
(*   crates/turbopack/src/ecmascript/references.rs  (module_references,    *)
(*   handle_call, value_visitor, AssetReferencesVisitor)                   *)
(*   crates/turbopack-ecmascript/src/webpack/mod.rs (webpack references)   *)
(*                                                                         *)
(* One invocation of module_references is a run of the state machine: the  *)
(* context-file lookups, the parse, the leading comments, the syntactic    *)
(* visitor (one step per visited node), the webpack runtime check, the     *)
(* effect loop (one step per effect) and the return.                       *)
(***************************************************************************)
EXTENDS Integers, Sequences, FiniteSets, TLC

\* ------------------------------------------------------------ environment
\* An awaited call that answers with an error: which call (`point`), for the
\* links of an effect the effect's span, and for the links of its arguments
\* the alternative of the callee being handled when they are awaited.
VARIABLE failing

Failure(point, span, alt) == [point |-> point, span |-> span, alt |-> alt]
NoFailure == Failure("none", 0, 0)

\* ------------------------------------------------------------------ bounds
\* longest module body (number of statements) drawn for Spec
MaxItems == 2
\* longest module body drawn for SpecWebpack
MaxWebpackItems == 3
\* longest argument list of a call drawn for SpecCall
MaxArgs == 2

\* ------------------------------------------------------- generic helpers
SeqsUpTo(S, n) == UNION {[1..k -> S] : k \in 0..n}

\* --------------------------------------------------------------- AST nodes
\* swc expressions, as far as the visitor and the graph builder look at them.
\* One record shape for every node: tag, name (identifier, property or literal
\* text) and args (children).
Node(tag, name, args) == [tag |-> tag, name |-> name, args |-> args]

Ident(n) == Node("Ident", n, <<>>)
LitStr(s) == Node("LitStr", s, <<>>)
LitNum(s) == Node("LitNum", s, <<>>)
LitBigInt(s) == Node("LitBigInt", s, <<>>)
\* obj.prop with an identifier property
MemberExpr(obj, prop) == Node("Member", prop, <<obj>>)
\* array literal; an element is an expression, Spread(expr) or Hole
ArrayLit(elems) == Node("Array", "", elems)
Spread(e) == Node("Spread", "", <<e>>)
Hole == Node("Hole", "", <<>>)
\* a + b
BinAdd(a, b) == Node("Add", "", <<a, b>>)
\* callee(args): args[1] is the callee, the rest the arguments
CallExpr(callee, args) == Node("Call", "", <<callee>> \o args)
\* the callee of import(x), which is not an expression (Callee::Import)
ImportCallee == Node("ImportCallee", "", <<>>)
NoExpr == Node("None", "", <<>>)

LitTags == {"LitStr", "LitNum", "LitBigInt", "LitBool", "LitNull", "LitRegex"}
IsLit(e) == e.tag \in LitTags
CallCallee(call) == call.args[1]
CallArgs(call) == Tail(call.args)

\* ------------------------------------------------------------- statements
\* Module items. depth is the nesting of the node (0 = module level, 1 = inside
\* a function body); local is the binding an import declaration introduces
\* ("" for a side-effect import).
Stmt(node, src, has_src, local, expr, depth) ==
    [node |-> node, src |-> src, has_src |-> has_src, local |-> local,
     expr |-> expr, depth |-> depth]

ImportDecl(src, local) == Stmt("ImportDecl", src, TRUE, local, NoExpr, 0)
ExportAll(src) == Stmt("ExportAll", src, TRUE, "", NoExpr, 0)
NamedExportFrom(src) == Stmt("NamedExport", src, TRUE, "", NoExpr, 0)
NamedExportLocal == Stmt("NamedExport", "", FALSE, "", NoExpr, 0)
\* var <name> = <init>
VarDeclarator(name, init, depth) == Stmt("VarDeclarator", "", FALSE, name, init, depth)
\* an expression statement holding one call
ExprStmt(call) == Stmt("ExprStmt", "", FALSE, "", call, 0)

\* ---------------------------------------------------------------- JsValue
\* The abstract value lattice of the analyzer, in the record shape of Node.
JsStr(s) == Node("Str", s, <<>>)
JsNum(s) == Node("Num", s, <<>>)
JsConcat(parts) == Node("Concat", "", parts)
JsArray(elems) == Node("JsArray", "", elems)
\* args[1] is the callee
JsCall(f, args) == Node("JsCall", "", <<f>> \o args)
JsMember(o, p) == Node("JsMember", "", <<o, p>>)
JsAlternatives(vs) == Node("Alternatives", "", vs)
JsVariable(n) == Node("Variable", n, <<>>)
FreeVar(kind) == Node("FreeVar", kind, <<>>)
Module(name) == Node("Module", name, <<>>)
Argument(i) == Node("Argument", i, <<>>)
WellKnownFunction(kind) == Node("WellKnownFunction", kind, <<>>)
\* FsReadMethod(name) and ChildProcessSpawnMethod(name) carry the method name
WellKnownMethod(kind, name) == Node("WellKnownFunction", kind, <<JsStr(name)>>)
WellKnownObject(kind) == Node("WellKnownObject", kind, <<>>)
Unknown(origin, reason) == Node("Unknown", reason, origin)

IsWellKnownFunction(v, kind) == v.tag = "WellKnownFunction" /\ v.name = kind

\* ---------------------------------------------------------- graph builder
\* create_graph: the bindings of the module and its effects in source order.
\* The span of a call is the position of the statement holding it.

\* the import table of the module: local name -> module specifier
ImportedNames(items) ==
    {items[i].local : i \in {j \in DOMAIN items :
                               items[j].node = "ImportDecl" /\ items[j].local # ""}}
ImportSource(items, n) ==
    LET i == CHOOSE j \in DOMAIN items :
                 items[j].node = "ImportDecl" /\ items[j].local = n
    IN items[i].src
DeclaredNames(items) ==
    {items[i].local : i \in {j \in DOMAIN items : items[j].node = "VarDeclarator"}}

FreeVarKind(n) ==
    CASE n = "require" -> "Require"
      [] n = "__dirname" -> "Dirname"
      [] n = "__filename" -> "Filename"
      [] n = "process" -> "NodeProcess"
      [] OTHER -> "Other"

RECURSIVE EvalExpr(_, _)
\* the JsValue the graph builder gives an expression
EvalExpr(items, e) ==
    CASE e.tag = "Ident" ->
             IF e.name \in ImportedNames(items) THEN Module(ImportSource(items, e.name))
             ELSE IF e.name \in DeclaredNames(items) THEN JsVariable(e.name)
             ELSE IF e.name = "arg" THEN Argument("0")
             ELSE FreeVar(FreeVarKind(e.name))
      [] e.tag = "LitStr" -> JsStr(e.name)
      [] e.tag = "LitNum" -> JsNum(e.name)
      [] e.tag = "Array" ->
             JsArray([i \in DOMAIN e.args |-> EvalExpr(items, e.args[i])])
      [] e.tag = "Add" ->
             JsConcat([i \in DOMAIN e.args |-> EvalExpr(items, e.args[i])])
      [] e.tag = "Member" ->
             JsMember(EvalExpr(items, e.args[1]), JsStr(e.name))
      [] e.tag = "Call" ->
             JsCall(EvalExpr(items, CallCallee(e)),
                    [i \in DOMAIN CallArgs(e) |-> EvalExpr(items, CallArgs(e)[i])])
      [] e.tag = "ImportCallee" -> FreeVar("Import")
      [] OTHER -> Unknown(<<>>, "unsupported expression")

\* Effect::Call { func, args, span } and Effect::MemberCall { obj, prop, args, span }
Effect(kind, func, obj, prop, args, span) ==
    [kind |-> kind, func |-> func, obj |-> obj, prop |-> prop, args |-> args,
     span |-> span]

NoValue == Node("None", "", <<>>)

\* the effect of the call expression `call` at `span`
CallEffect(items, call, span) ==
    LET callee == CallCallee(call)
        args == [i \in DOMAIN CallArgs(call) |-> EvalExpr(items, CallArgs(call)[i])]
    IN IF callee.tag = "Member"
       THEN Effect("MemberCall", NoValue, EvalExpr(items, callee.args[1]),
                   JsStr(callee.name), args, span)
       ELSE Effect("Call", EvalExpr(items, callee), NoValue, NoValue, args, span)

RECURSIVE EffectsFrom(_, _)
\* the effects of items[i..], one per call expression, in source order
EffectsFrom(items, i) ==
    IF i > Len(items) THEN <<>>
    ELSE (IF items[i].expr.tag = "Call"
          THEN <<CallEffect(items, items[i].expr, i)>>
          ELSE <<>>) \o EffectsFrom(items, i + 1)

\* the value of variable n: the initializer of its declarator, or the
\* alternatives of the initializers when it is declared more than once
GraphValue(items, n) ==
    LET decls == SelectSeq(items, LAMBDA s : s.node = "VarDeclarator" /\ s.local = n)
        vals == [i \in DOMAIN decls |-> EvalExpr(items, decls[i].expr)]
    IN IF Len(vals) = 1 THEN vals[1] ELSE JsAlternatives(vals)

\* var_graph: values and effects
create_graph(items) ==
    [values |-> [n \in DeclaredNames(items) |-> GraphValue(items, n)],
     effects |-> EffectsFrom(items, 1)]

\* ---------------------------------------------------------------- Pattern
\* resolve::pattern::Pattern with its has_constant_parts predicate
PConstant(s) == Node("Constant", s, <<>>)
PDynamic == Node("Dynamic", "", <<>>)
PConcatenation(parts) == Node("Concatenation", "", parts)
PAlternatives(alts) == Node("PAlternatives", "", alts)

RECURSIVE has_constant_parts(_)
has_constant_parts(pat) ==
    CASE pat.tag = "Constant" -> TRUE
      [] pat.tag = "Dynamic" -> FALSE
      [] OTHER -> \E i \in DOMAIN pat.args : has_constant_parts(pat.args[i])

RECURSIVE js_value_to_pattern(_)
js_value_to_pattern(v) ==
    CASE v.tag \in {"Str", "Num"} -> PConstant(v.name)
      [] v.tag = "Alternatives" ->
             PAlternatives([i \in DOMAIN v.args |-> js_value_to_pattern(v.args[i])])
      [] v.tag = "Concat" ->
             PConcatenation([i \in DOMAIN v.args |-> js_value_to_pattern(v.args[i])])
      [] OTHER -> PDynamic

\* Pattern as text, for format!("unresolveable request {pat}")
RECURSIVE PatternText(_)
RECURSIVE PatternTexts(_, _)
PatternTexts(pats, separator) ==
    IF pats = <<>> THEN ""
    ELSE IF Len(pats) = 1 THEN PatternText(pats[1])
    ELSE PatternText(pats[1]) \o separator \o PatternTexts(Tail(pats), separator)
PatternText(pat) ==
    CASE pat.tag = "Constant" -> pat.name
      [] pat.tag = "Dynamic" -> "<dynamic>"
      [] pat.tag = "PAlternatives" -> PatternTexts(pat.args, " | ")
      [] OTHER -> PatternTexts(pat.args, "")

\* ------------------------------------------------------------ environment
\* The module under analysis and the answers of the external collaborators.
SourcePath == "src/index.js"
SourceParent == "src"

\* ResolveResult
Single(asset) == [result |-> "Single", assets |-> <<asset>>]
ResolveAlternatives(assets) == [result |-> "Alternatives", assets |-> assets]
Unresolveable == [result |-> "Unresolveable", assets |-> <<>>]

\* what the resolver answers for a request made from the source's directory
ResolverAnswer(pat) ==
    CASE pat = PConstant("./runtime.js") -> Single("src/runtime.js")
      [] pat = PConstant("./lib.js") -> Single("src/lib.js")
      [] pat = PConstant("./a") -> Single("src/a.js")
      [] pat = PConstant("pkg") ->
             ResolveAlternatives(<<"node_modules/pkg/a.js", "node_modules/pkg/b.js">>)
      [] OTHER -> Unresolveable

\* the resolver answering with an error
ResolveError == [result |-> "Error", assets |-> <<>>]

cjs_resolve(pat) ==
    IF failing.point = "resolve" THEN ResolveError ELSE ResolverAnswer(pat)

\* webpack::parse::is_webpack_runtime
is_webpack_runtime(asset) == IF asset = "src/runtime.js" THEN "Webpack5" ELSE "None"

\* --------------------------------------------------------- value visitor
as_abs_path(path) == JsStr("/ROOT/" \o path)

\* analyzer::well_known::replace_well_known followed by
\* analyzer::builtin::replace_builtin: <<value, modified>>
FsReadMethods == {"readFile", "readFileSync"}
SpawnMethods == {"spawn", "spawnSync", "execFile", "execFileSync"}

\* path.join on the arguments: every run of adjacent constant strings is
\* folded into one, joined with "/"
RECURSIVE FoldRuns(_)
FoldRuns(args) ==
    IF Len(args) < 2 THEN args
    ELSE IF args[1].tag = "Str" /\ args[2].tag = "Str"
    THEN FoldRuns(<<JsStr(args[1].name \o "/" \o args[2].name)>> \o Tail(Tail(args)))
    ELSE <<Head(args)>> \o FoldRuns(Tail(args))
\* `folded` is FoldRuns of the arguments of the call v: a constant when only
\* constants were given, else the call on the folded arguments
PathJoinFolded(v, folded) ==
    CASE folded = <<>> -> <<JsStr("."), TRUE>>
      [] Len(folded) = 1 /\ folded[1].tag = "Str" -> <<folded[1], TRUE>>
      [] OTHER -> <<JsCall(v.args[1], folded), folded # Tail(v.args)>>

replace_well_known(v) ==
    IF v.tag = "JsCall" /\ v.args[1] = WellKnownFunction("PathJoin")
    THEN PathJoinFolded(v, FoldRuns(Tail(v.args)))
    ELSE IF v.tag = "JsMember" /\ v.args[2].tag = "Str"
    THEN LET o == v.args[1]
             p == v.args[2].name
         IN CASE IsWellKnownFunction(o, "Require") /\ p = "resolve" ->
                     <<WellKnownFunction("RequireResolve"), TRUE>>
              [] o = WellKnownObject("PathModule") /\ p = "join" ->
                     <<WellKnownFunction("PathJoin"), TRUE>>
              [] o = WellKnownObject("FsModule") /\ p \in FsReadMethods ->
                     <<WellKnownMethod("FsReadMethod", p), TRUE>>
              [] o = WellKnownObject("ChildProcess") /\ p \in SpawnMethods ->
                     <<WellKnownMethod("ChildProcessSpawnMethod", p), TRUE>>
              [] o = WellKnownObject("ChildProcess") /\ p = "fork" ->
                     <<WellKnownFunction("ChildProcessFork"), TRUE>>
              [] OTHER -> <<v, FALSE>>
    ELSE <<v, FALSE>>

replace_builtin(v) ==
    CASE v.tag = "JsMember" /\ v.args[1].tag = "JsArray" /\ v.args[2] = JsNum("0") ->
             IF Len(v.args[1].args) > 0
             THEN <<v.args[1].args[1], TRUE>>
             ELSE <<Unknown(<<v>>, "invalid index"), TRUE>>
      [] OTHER -> <<v, FALSE>>

\* what a link that returned an error stands for
LinkFailure == Node("Err", "", <<>>)

ResolvedValueOfSingle(v, resolved) ==
    CASE resolved.result = "Error" -> LinkFailure
      [] resolved.result = "Single" -> as_abs_path(resolved.assets[1])
      [] OTHER -> v
\* the value of require.resolve(x), given what the resolver answered;
\* cjs_resolve(..).await? hands an error on
ResolvedValue(v, resolved) ==
    CASE resolved.result = "Error" -> LinkFailure
      [] resolved.result = "Single" -> as_abs_path(resolved.assets[1])
      [] resolved.result = "Alternatives" ->
             JsAlternatives([i \in DOMAIN resolved.assets |->
                               as_abs_path(resolved.assets[i])])
      [] OTHER -> Unknown(<<v>>, "unresolveable request "
                                      \o PatternText(js_value_to_pattern(v.args[2])))

WellKnownThenBuiltinModified(r1, r2) == <<r2[1], TRUE>>
\* replace_well_known, then replace_builtin on its result
WellKnownThenBuiltin(r1, r2) == <<r2[1], r1[2] \/ r2[2]>>
ThenBuiltin(r1) == WellKnownThenBuiltin(r1, replace_builtin(r1[1]))

ModuleValueOfFs(v) == WellKnownObject("FsModule")
\* JsValue::Module(ref name) => match &**name { .. }
ModuleValue(v) ==
    CASE v.name = "path" -> WellKnownObject("PathModule")
      [] v.name = "fs/promises" -> WellKnownObject("FsModule")
      [] v.name = "fs" -> WellKnownObject("FsModule")
      [] v.name = "child_process" -> WellKnownObject("ChildProcess")
      [] v.name = "os" -> WellKnownObject("OsModule")
      [] v.name = "process" -> WellKnownObject("NodeProcess")
      [] OTHER -> Unknown(<<v>>, "cross module analyzing is not yet supported")

value_visitor_inner_reductions_only(v) == ThenBuiltin(replace_well_known(v))
\* the rules in match order, each returning modified = true; the last arm
\* returns what the two reductions report
value_visitor_inner(v) ==
    CASE v.tag = "JsCall" /\ IsWellKnownFunction(v.args[1], "RequireResolve") ->
             IF Len(v.args) = 2
             THEN <<ResolvedValue(v, cjs_resolve(js_value_to_pattern(v.args[2]))), TRUE>>
             ELSE <<Unknown(<<v>>, "only a single argument is supported"), TRUE>>
      [] v = FreeVar("Dirname") -> <<as_abs_path(SourceParent), TRUE>>
      [] v = FreeVar("Filename") -> <<as_abs_path(SourcePath), TRUE>>
      [] v = FreeVar("Require") -> <<WellKnownFunction("Require"), TRUE>>
      [] v = FreeVar("Import") -> <<WellKnownFunction("Import"), TRUE>>
      [] v = FreeVar("NodeProcess") -> <<WellKnownObject("NodeProcess"), TRUE>>
      [] v.tag = "FreeVar" -> <<Unknown(<<v>>, "unknown global"), TRUE>>
      [] v.tag = "Module" -> <<ModuleValue(v), TRUE>>
      [] v.tag = "Argument" ->
             <<Unknown(<<v>>, "cross function analyzing is not yet supported"), TRUE>>
      [] OTHER -> ThenBuiltin(replace_well_known(v))

\* JsValue::normalize_shallow: a concatenation of string constants is one
\* constant; nested alternatives are flattened, duplicates removed, and a
\* single alternative is its element
RECURSIVE FlattenAlternatives(_)
FlattenAlternatives(vs) ==
    IF vs = <<>> THEN <<>>
    ELSE (IF Head(vs).tag = "Alternatives" THEN Head(vs).args ELSE <<Head(vs)>>)
             \o FlattenAlternatives(Tail(vs))
RECURSIVE Dedup(_)
Dedup(vs) ==
    IF vs = <<>> THEN <<>>
    ELSE <<Head(vs)>> \o Dedup(SelectSeq(Tail(vs), LAMBDA v : v # Head(vs)))
SingleOrAlternatives(vs) == IF Len(vs) = 1 THEN vs[1] ELSE JsAlternatives(vs)
RECURSIVE ConcatStrings(_)
ConcatStrings(parts) ==
    IF parts = <<>> THEN "" ELSE Head(parts).name \o ConcatStrings(Tail(parts))

normalize_shallow(v) ==
    CASE v.tag = "Concat" /\ \A i \in DOMAIN v.args : v.args[i].tag = "Str" ->
             JsStr(ConcatStrings(v.args))
      [] v.tag = "Alternatives" ->
             SingleOrAlternatives(Dedup(FlattenAlternatives(v.args)))
      [] OTHER -> v

Normalized(r) == <<normalize_shallow(r[1]), r[2]>>
value_visitor(v) == Normalized(value_visitor_inner(v))

\* ------------------------------------------------------------------ linker
\* analyzer::linker::link: substitute variables, link the children, then apply
\* the visitor, re-entering the value while the visitor reports a change.
ChildTags == {"JsCall", "JsMember", "Concat", "JsArray", "Alternatives"}

RECURSIVE link(_, _)
RECURSIVE Relink(_, _)
\* r is what the visitor returned: <<value, modified>>; an error is handed on
Relink(graph, r) ==
    IF r[1] = LinkFailure THEN LinkFailure
    ELSE IF r[2] THEN link(graph, r[1]) ELSE r[1]
Revisit(graph, v) == Relink(graph, value_visitor(v))
\* the visitor on a value whose children are linked; an error in a child is
\* handed on
RevisitNode(graph, v, children) ==
    IF \E i \in DOMAIN children : children[i] = LinkFailure THEN LinkFailure
    ELSE Revisit(graph, Node(v.tag, v.name, children))

link(graph, v) ==
    CASE v.tag = "Variable" ->
             IF v.name \in DOMAIN graph.values
             THEN link(graph, graph.values[v.name])
             ELSE Unknown(<<v>>, "unknown variable")
      [] v.tag \in ChildTags ->
             RevisitNode(graph, v, [i \in DOMAIN v.args |-> link(graph, v.args[i])])
      [] OTHER -> Revisit(graph, v)

\* ------------------------------------------------------- reference records
Ref(kind, request, from_typescript, chunk_id) ==
    [kind |-> kind, request |-> request, from_typescript |-> from_typescript,
     chunk_id |-> chunk_id]

PackageJsonReference(path) == Ref("PackageJson", PConstant(path), FALSE, NoExpr)
TsConfigReference(path) == Ref("TsConfig", PConstant(path), FALSE, NoExpr)
EsmAssetReference(request, ts) == Ref("Esm", request, ts, NoExpr)
CjsAssetReference(request, ts) == Ref("Cjs", request, ts, NoExpr)
SourceAssetReference(pat) == Ref("SourceAsset", pat, FALSE, NoExpr)
TsReferencePathAssetReference(path) == Ref("TsReferencePath", PConstant(path), FALSE, NoExpr)
TsReferenceTypeAssetReference(module) == Ref("TsReferenceType", PConstant(module), FALSE, NoExpr)
WebpackRuntimeAssetReference(request) == Ref("WebpackRuntime", request, FALSE, NoExpr)
WebpackEntryAssetReference == Ref("WebpackEntry", PDynamic, FALSE, NoExpr)
WebpackChunkAssetReference(chunk_id) == Ref("WebpackChunk", PDynamic, FALSE, chunk_id)

\* a diagnostic of the swc handler: severity (DiagnosticId::Lint / ::Error),
\* code (errors::failed_to_analyse::ecmascript::*) and span
Diagnostic(severity, code, span) == [severity |-> severity, code |-> code, span |-> span]

\* Option<T>
None == <<>>
Some(x) == <<x>>

\* the chunk id of a WebpackChunkAssetReference as text: Lit::Str and Lit::Num
\* have one, any other literal reaches todo!()
ChunkIdText(chunk_id) ==
    CASE chunk_id.tag = "LitStr" -> Some(chunk_id.name)
      [] chunk_id.tag = "LitNum" -> Some(chunk_id.name)
      [] OTHER -> None

\* WebpackRuntime: Webpack5 { chunk_request_expr, context_path } or None
Webpack5(context_path) == [kind |-> "Webpack5", context_path |-> context_path]
WebpackRuntimeNone == [kind |-> "None", context_path |-> ""]
\* context_path.join(filename)
JoinPath(context_path, filename) == [dir |-> context_path, file |-> filename]
\* ModuleAssetVc::new(SourceAssetVc::new(path), runtime, transforms)
WebpackModule(path, runtime) == [path |-> path, runtime |-> runtime]
\* what a call of resolve_reference ends in: a ResolveResult, or a panic
Resolution(result, assets, refs) ==
    [result |-> result, assets |-> assets, references |-> refs]
\* format!("./chunks/{}.js", chunk_id)
ChunkFilename(text) == "./chunks/" \o text \o ".js"
\* WebpackChunkAssetReference::resolve_reference
resolve_reference(chunk_id, runtime) ==
    IF runtime.kind = "Webpack5"
    THEN IF ChunkIdText(chunk_id) = None
         THEN Resolution("Panic", <<>>, <<>>)
         ELSE Resolution("Single",
                         <<WebpackModule(JoinPath(runtime.context_path,
                                                  ChunkFilename(ChunkIdText(chunk_id)[1])),
                                         runtime)>>,
                         <<>>)
    ELSE Resolution("Unresolveable", <<>>, <<>>)

\* ------------------------------------------------------ syntactic visitor
WebpackRequire == "__webpack_require__"

\* StaticExpr of the old analyser
StaticString(s) == [kind |-> "String", str |-> s, path |-> <<>>]
StaticFreeVar(path) == [kind |-> "FreeVar", str |-> "", path |-> path]
StaticImportedVar(module, path) == [kind |-> "ImportedVar", str |-> module, path |-> path]
StaticUnknown == [kind |-> "Unknown", str |-> "", path |-> <<>>]

\* old_analyser.imports is a map local name -> (module, path): a set of
\* entries with one entry per local name
ImportsInsert(imports, local, module, path) ==
    {e \in imports : e.local # local}
        \cup {[local |-> local, module |-> module, path |-> path]}
ImportsGet(imports, local) == {e \in imports : e.local = local}

RECURSIVE evaluate_expr(_, _)
evaluate_expr(imports, e) ==
    CASE e.tag = "LitStr" -> StaticString(e.name)
      [] e.tag = "Ident" ->
             IF ImportsGet(imports, e.name) # {}
             THEN LET entry == CHOOSE x \in ImportsGet(imports, e.name) : TRUE
                  IN StaticImportedVar(entry.module, entry.path)
             ELSE StaticFreeVar(<<e.name>>)
      [] e.tag = "Member" ->
             LET o == evaluate_expr(imports, e.args[1])
             IN CASE o.kind = "FreeVar" -> StaticFreeVar(Append(o.path, e.name))
                  [] o.kind = "ImportedVar" ->
                         StaticImportedVar(o.str, Append(o.path, e.name))
                  [] OTHER -> StaticUnknown
      [] OTHER -> StaticUnknown

ChunkElements(elems) == elems
\* the literals an array of chunk ids contributes, in element order
RECURSIVE ChunkLits(_)
ChunkLits(elems) ==
    IF elems = <<>> THEN <<>>
    ELSE (IF IsLit(Head(elems)) THEN <<Head(elems)>> ELSE <<>>) \o ChunkLits(Tail(elems))

\* the visitor's webpack state
VisitorState(runtime, entry, chunks) ==
    [webpack_runtime |-> runtime, webpack_entry |-> entry, webpack_chunks |-> chunks]

\* visit_call_expr without the descent into the children
visit_call_expr(imports, call, st) ==
    LET callee == CallCallee(call)
        args == CallArgs(call)
        static == IF callee.tag = "ImportCallee" THEN StaticUnknown
                  ELSE evaluate_expr(imports, callee)
    IN CASE static.kind = "FreeVar" /\ static.path = <<WebpackRequire, "C">> ->
                [st EXCEPT !.webpack_entry = TRUE]
         [] static.kind = "FreeVar" /\ static.path = <<WebpackRequire, "X">> ->
                IF Len(args) = 3 /\ args[2].tag = "Array"
                THEN [st EXCEPT !.webpack_chunks = @ \o ChunkLits(args[2].args)]
                ELSE st
         [] OTHER -> st

RECURSIVE VisitExpr(_, _, _)
RECURSIVE VisitChildren(_, _, _)
\* the traversal of an expression: every call expression in it, parents first
VisitExpr(imports, e, st) ==
    IF e.tag = "Call"
    THEN VisitChildren(imports, e.args, visit_call_expr(imports, e, st))
    ELSE VisitChildren(imports, e.args, st)
VisitChildren(imports, es, st) ==
    IF es = <<>> THEN st
    ELSE VisitChildren(imports, Tail(es), VisitExpr(imports, Head(es), st))

\* whether a declarator is `var __webpack_require__ = require("<literal>")`
IsRuntimeDeclarator(decl) ==
    /\ decl.local = WebpackRequire
    /\ decl.expr.tag = "Call"
    /\ CallCallee(decl.expr) = Ident("require")
    /\ Len(CallArgs(decl.expr)) = 1
    /\ CallArgs(decl.expr)[1].tag = "LitStr"

visit_var_declarator_keeping_first(imports, decl, span, st) ==
    IF IsRuntimeDeclarator(decl)
    THEN IF st.webpack_runtime = None
         THEN [st EXCEPT !.webpack_runtime =
                             Some([request |-> CallArgs(decl.expr)[1].name, span |-> span])]
         ELSE st
    ELSE VisitExpr(imports, decl.expr, st)
visit_var_declarator_at_top_level(imports, decl, span, st) ==
    IF IsRuntimeDeclarator(decl) /\ decl.depth = 0
    THEN [st EXCEPT !.webpack_runtime =
                        Some([request |-> CallArgs(decl.expr)[1].name, span |-> span])]
    ELSE st
\* visit_var_declarator: record the runtime marker and stop, or descend
visit_var_declarator(imports, decl, span, st) ==
    IF IsRuntimeDeclarator(decl)
    THEN [st EXCEPT !.webpack_runtime =
                        Some([request |-> CallArgs(decl.expr)[1].name, span |-> span])]
    ELSE VisitExpr(imports, decl.expr, st)

\* ----------------------------------------------------------- effect handler
\* Pattern::is_match
RECURSIVE is_match(_, _)
is_match(pat, value) ==
    CASE pat.tag = "Constant" -> pat.name = value
      [] pat.tag = "Dynamic" -> TRUE
      [] pat.tag = "PAlternatives" -> \E i \in DOMAIN pat.args : is_match(pat.args[i], value)
      [] OTHER -> FALSE

\* which stage pushed a reference, and for an effect its span
Origin(stage, span) == [stage |-> stage, span |-> span]

\* what handle_call has produced so far: the reference list, the origin of
\* each reference, the buffered diagnostics
Output(refs, origs, diags) ==
    [references |-> refs, origins |-> origs, diagnostics |-> diags,
     failed |-> FALSE, alt |-> 1]
\* return Err(..) out of handle_call: an awaited link answered with an error
Failed(out) == [out EXCEPT !.failed = TRUE]
\* linked_args().await?: whether the joined links answer with an error; no
\* link is awaited for an empty argument list
LinkFails(args, span, out) ==
    \/ args # <<>> /\ failing = Failure("args", span, out.alt)
    \/ \E i \in DOMAIN args : args[i] = LinkFailure
\* references.push(ref) while handling the effect at `span`
Emit(out, ref, span) ==
    [out EXCEPT !.references = Append(@, ref),
                !.origins = Append(@, Origin("effect", span))]
WarnNever(out, severity, code, span) == out
\* handler.span_warn_with_code: one diagnostic buffered for `span`
Warn(out, severity, code, span) ==
    [out EXCEPT !.diagnostics = Append(@, Diagnostic(severity, code, span))]
WarnIf(cond, out, severity, code, span) ==
    IF cond THEN Warn(out, severity, code, span) ELSE out

linked_args_as_completed(graph, args, order) ==
    [i \in DOMAIN args |-> link(graph, args[order[i]])]
\* linked_args: every argument linked, joined in argument order whatever the
\* order `order` in which the links complete
linked_args(graph, args, order) == [i \in DOMAIN args |-> link(graph, args[i])]

LintAndEmitAlways(pat, code, span, ref, out) ==
    Emit(Warn(out, "Lint", code, span), ref, span)
LintAndEmitNever(pat, code, span, ref, out) == Emit(out, ref, span)
\* a lint when `pat` has no constant parts, then the reference `ref`
LintAndEmit(pat, code, span, ref, out) ==
    Emit(WarnIf(~has_constant_parts(pat), out, "Lint", code, span), ref, span)

RequestReference(kind, pat, code, span, is_typescript, out) ==
    LintAndEmit(pat, code, span, Ref(kind, pat, is_typescript, NoExpr), out)

RequestArmFirstArgument(kind, code, span, args, is_typescript, out) ==
    IF Len(args) >= 1
    THEN RequestReference(kind, js_value_to_pattern(args[1]), code, span,
                          is_typescript, out)
    ELSE Warn(out, "Error", code, span)
\* the arms of import(), require() and require.resolve(): with one argument a
\* reference of `kind` (and a lint when the pattern has no constant parts),
\* otherwise an error diagnostic
RequestArm(kind, code, span, args, is_typescript, out) ==
    IF LinkFails(args, span, out) THEN Failed(out)
    ELSE IF Len(args) = 1
    THEN RequestReference(kind, js_value_to_pattern(args[1]), code, span,
                          is_typescript, out)
    ELSE Warn(out, "Error", code, span)

RawReference(pat, code, span, out) ==
    LintAndEmit(pat, code, span, SourceAssetReference(pat), out)

FsReadArmWithoutError(span, args, out) ==
    IF Len(args) >= 1
    THEN RawReference(js_value_to_pattern(args[1]), "FS_METHOD", span, out)
    ELSE out
\* the arm of an fs read method: a raw reference to the first argument (and a
\* lint when its pattern has no constant parts), or an error diagnostic
FsReadArm(span, args, out) ==
    IF LinkFails(args, span, out) THEN Failed(out)
    ELSE IF Len(args) >= 1
    THEN RawReference(js_value_to_pattern(args[1]), "FS_METHOD", span, out)
    ELSE Warn(out, "Error", "FS_METHOD", span)

PathJoinReferenceOfArguments(linked, pat, span, args, out) ==
    IF args = <<>> THEN Warn(out, "Error", "PATH_METHOD", span)
    ELSE Emit(out, SourceAssetReference(pat), span)
\* `linked` is the linked Call(PathJoin, args); linked_args() is awaited only
\* for the text of the lint
PathJoinReference(linked, pat, span, args, out) ==
    IF linked = LinkFailure THEN Failed(out)
    ELSE IF ~has_constant_parts(pat)
            /\ args # <<>> /\ failing = Failure("args", span, out.alt)
    THEN Failed(out)
    ELSE RawReference(pat, "PATH_METHOD", span, out)
PathJoinLinked(linked, span, args, out) ==
    PathJoinReference(linked, js_value_to_pattern(linked), span, args, out)

PathJoinArm(graph, span, args, out) ==
    PathJoinLinked(link(graph, JsCall(WellKnownFunction("PathJoin"), args)),
                   span, args, out)

\* spawn("node", [script, ...]): a CJS reference to the script, then the raw
\* reference to the command
SpawnNode(pat, first_pat, span, is_typescript, out) ==
    Emit(WarnIf(~has_constant_parts(first_pat) \/ ~has_constant_parts(pat),
                Emit(out, CjsAssetReference(first_pat, is_typescript), span),
                "Lint", "CHILD_PROCESS_SPAWN", span),
         SourceAssetReference(pat), span)

SpawnCommandOnly(graph, pat, args, span, is_typescript, out) ==
    RawReference(pat, "CHILD_PROCESS_SPAWN", span, out)
\* if pat.is_match("node") && args.len() >= 2 { .. }
SpawnCommand(graph, pat, args, span, is_typescript, out) ==
    IF is_match(pat, "node") /\ Len(args) >= 2
    THEN SpawnNode(pat, js_value_to_pattern(link(graph, JsMember(args[2], JsNum("0")))),
                   span, is_typescript, out)
    ELSE RawReference(pat, "CHILD_PROCESS_SPAWN", span, out)

ChildProcessSpawnArm(graph, span, args, is_typescript, out) ==
    IF LinkFails(args, span, out) THEN Failed(out)
    ELSE IF Len(args) >= 1
    THEN SpawnCommand(graph, js_value_to_pattern(args[1]), args, span, is_typescript, out)
    ELSE Warn(out, "Error", "CHILD_PROCESS_SPAWN", span)

\* `linked` is the linked first argument; linked_args() is awaited only for
\* the text of the lint
ForkReference(linked, pat, span, is_typescript, out) ==
    IF linked = LinkFailure THEN Failed(out)
    ELSE IF ~has_constant_parts(pat) /\ failing = Failure("args", span, out.alt)
    THEN Failed(out)
    ELSE RequestReference("Cjs", pat, "CHILD_PROCESS_SPAWN", span, is_typescript, out)
ForkLinked(linked, span, is_typescript, out) ==
    ForkReference(linked, js_value_to_pattern(linked), span, is_typescript, out)

ChildProcessForkArm(graph, span, args, is_typescript, out) ==
    IF Len(args) >= 1
    THEN ForkLinked(link(graph, args[1]), span, is_typescript, out)
    ELSE Warn(out, "Error", "CHILD_PROCESS_SPAWN", span)

RECURSIVE handle_call(_, _, _, _, _, _, _)
RECURSIVE HandleAlternatives(_, _, _, _, _, _, _)
\* handle_call for the linked callee `func` of the effect at `span`
handle_call(graph, span, func, args, order, is_typescript, out) ==
    CASE func.tag = "Alternatives" ->
             HandleAlternatives(graph, span, func.args, args, order, is_typescript, out)
      [] IsWellKnownFunction(func, "Import") ->
             RequestArm("Esm", "DYNAMIC_IMPORT", span, linked_args(graph, args, order),
                        is_typescript, out)
      [] IsWellKnownFunction(func, "Require") ->
             RequestArm("Cjs", "REQUIRE", span, linked_args(graph, args, order),
                        is_typescript, out)
      [] IsWellKnownFunction(func, "RequireResolve") ->
             RequestArm("Cjs", "REQUIRE_RESOLVE", span, linked_args(graph, args, order),
                        is_typescript, out)
      [] IsWellKnownFunction(func, "FsReadMethod") ->
             FsReadArm(span, linked_args(graph, args, order), out)
      [] IsWellKnownFunction(func, "PathJoin") ->
             PathJoinArm(graph, span, args, out)
      [] IsWellKnownFunction(func, "ChildProcessSpawnMethod") ->
             ChildProcessSpawnArm(graph, span, linked_args(graph, args, order),
                                  is_typescript, out)
      [] IsWellKnownFunction(func, "ChildProcessFork") ->
             ChildProcessForkArm(graph, span, args, is_typescript, out)
      [] OTHER -> out

\* the next alternative is handled on what the previous one left
AfterAlternative(out) == [out EXCEPT !.alt = @ + 1]
HandleFirstAlternative(graph, span, alts, args, order, is_typescript, out) ==
    IF alts = <<>> THEN out
    ELSE handle_call(graph, span, Head(alts), args, order, is_typescript, out)
\* for alt in alts { handle_call_boxed(alt).await? }
HandleAlternatives(graph, span, alts, args, order, is_typescript, out) ==
    IF alts = <<>> \/ out.failed THEN out
    ELSE HandleAlternatives(graph, span, Tail(alts), args, order, is_typescript,
             AfterAlternative(
                 handle_call(graph, span, Head(alts), args, order, is_typescript, out)))

\* the linked callee of an effect
LinkedCallee(graph, effect) ==
    IF effect.kind = "Call"
    THEN link(graph, effect.func)
    ELSE link(graph, JsMember(link(graph, effect.obj), effect.prop))

\* ------------------------------------------------------------------ inputs
\* What one invocation is given: the module type, the answers of
\* find_context_file, and the answer of the parser (with the leading comments
\* and the module body when it is Ok).
ModuleAssetTypes == {"Ecmascript", "Typescript", "TypescriptDeclaration"}

Input(ty, package_json, tsconfig, parsed, comments, items) ==
    [ty |-> ty, package_json |-> package_json, tsconfig |-> tsconfig,
     parsed |-> parsed, comments |-> comments, items |-> items]

\* a leading comment: its kind, and which of the two triple-slash patterns its
\* text matches ("path", "types" or "none") with the captured value
Comment(kind, directive, value) == [kind |-> kind, directive |-> directive, value |-> value]

CommentLists ==
    {<<>>,
     <<Comment("Line", "path", "./globals.d.ts"), Comment("Block", "path", "./block.d.ts"),
       Comment("Line", "none", ""), Comment("Line", "types", "node")>>}

Call(callee, args) == ExprStmt(CallExpr(callee, args))
RuntimeDeclarator(request, depth) ==
    VarDeclarator(WebpackRequire, CallExpr(Ident("require"), <<LitStr(request)>>), depth)
ChunkCall(args) == Call(MemberExpr(Ident(WebpackRequire), "X"), args)

\* statements of the modules drawn for Spec
Statements ==
    {ImportDecl("./a", ""), ExportAll("./b"), NamedExportFrom("./c"), NamedExportLocal,
     RuntimeDeclarator("./runtime.js", 0),
     ChunkCall(<<LitNum("0"), ArrayLit(<<LitStr("a"), LitNum("7")>>), Ident("f")>>),
     Call(Ident("require"), <<LitStr("./a")>>)}

Contexts == ModuleAssetTypes \X BOOLEAN \X BOOLEAN

Inputs ==
    {Input(c[1], c[2], c[3], "Ok", comments, items) :
        c \in Contexts, comments \in CommentLists, items \in SeqsUpTo(Statements, MaxItems)}
    \cup {Input(c[1], c[2], c[3], parsed, <<>>, <<>>) :
            c \in Contexts, parsed \in {"Unparseable", "NotFound"}}

\* statements of the modules drawn for SpecWebpack: the webpack runtime
\* signature in its variants
ChunkIds ==
    <<LitStr("a"), Ident("x"), Spread(LitStr("s")), Hole, LitBigInt("1"), LitNum("7")>>

WebpackStatements ==
    {ImportDecl("./w", WebpackRequire),
     RuntimeDeclarator("./runtime.js", 0),
     RuntimeDeclarator("./lib.js", 0),
     RuntimeDeclarator("pkg", 0),
     RuntimeDeclarator("./runtime.js", 1),
     Call(MemberExpr(Ident(WebpackRequire), "C"), <<>>),
     ChunkCall(<<LitNum("0"), ArrayLit(ChunkIds), Ident("f")>>),
     ChunkCall(<<ArrayLit(ChunkIds), Ident("f")>>)}

WebpackInputs ==
    {Input("Ecmascript", FALSE, FALSE, "Ok", <<>>, items) :
        items \in SeqsUpTo(WebpackStatements, MaxWebpackItems)}

\* modules drawn for SpecCall: one call of a dynamic form, with every argument
\* list up to MaxArgs of a constant, a function argument and a concatenation
\* of the two
ArgumentExprs == {LitStr("./a"), Ident("arg"), BinAdd(LitStr("./"), Ident("arg"))}
ArgumentLists == SeqsUpTo(ArgumentExprs, MaxArgs)

\* argument lists of child_process.spawn: a command, then its argv
SpawnArgumentLists ==
    {<<>>}
    \cup {<<command>> : command \in {LitStr("node"), LitStr("ls"), Ident("arg")}}
    \cup {<<command, argv>> :
             command \in {LitStr("node"), LitStr("ls"), Ident("arg")},
             argv \in {ArrayLit(<<LitStr("./a")>>), ArrayLit(<<Ident("arg")>>),
                       ArrayLit(<<>>), Ident("arg")}}

\* callees a variable assigned twice may stand for
AlternativeCallees ==
    {Ident("require"), MemberExpr(Ident("require"), "resolve"), Ident("g")}

CallModules ==
    {<<Call(callee, args)>> :
        callee \in {Ident("require"), ImportCallee, MemberExpr(Ident("require"), "resolve")},
        args \in ArgumentLists}
    \cup {<<ImportDecl("fs", "fs"), Call(MemberExpr(Ident("fs"), "readFile"), args)>> :
             args \in ArgumentLists}
    \cup {<<ImportDecl("path", "path"), Call(MemberExpr(Ident("path"), "join"), args)>> :
             args \in ArgumentLists}
    \cup {<<ImportDecl("child_process", "cp"),
             Call(MemberExpr(Ident("cp"), "spawn"), args)>> :
             args \in SpawnArgumentLists}
    \cup {<<ImportDecl("child_process", "cp"),
             Call(MemberExpr(Ident("cp"), "fork"), args)>> :
             args \in ArgumentLists}
    \cup {<<ImportDecl("lodash", "l"), Call(callee, args)>> :
             callee \in {Ident("l"), MemberExpr(Ident("l"), "readFile")},
             args \in ArgumentLists}
    \cup {<<VarDeclarator("f", a, 0), VarDeclarator("f", b, 0), Call(Ident("f"), args)>> :
             a \in AlternativeCallees, b \in AlternativeCallees, args \in ArgumentLists}
    \cup {<<ImportDecl("fs", "fs"),
             VarDeclarator("f", MemberExpr(Ident("fs"), "readFile"), 0),
             VarDeclarator("f", MemberExpr(Ident("fs"), "readFileSync"), 0),
             Call(Ident("f"), args)>> : args \in ArgumentLists}

CallInputs ==
    {Input(ty, FALSE, FALSE, "Ok", <<>>, items) :
        ty \in {"Ecmascript", "Typescript"}, items \in CallModules}

\* modules and failing calls drawn for SpecFail: the modules of SpecCall, a
\* module whose argument is lowered through the resolver, a module with the
\* webpack signature, and modules of two calls, each with package.json found
TwoCallArguments == {<<>>, <<LitStr("./a")>>, <<Ident("arg")>>}
FailModules ==
    CallModules
    \cup {<<VarDeclarator("p", CallExpr(MemberExpr(Ident("require"), "resolve"),
                                        <<LitStr(request)>>), 0),
            Call(Ident("require"), <<Ident("p")>>)>> : request \in {"./a", "pkg"}}
    \cup {<<RuntimeDeclarator("./runtime.js", 0), Call(Ident("require"), <<LitStr("./a")>>)>>}
    \cup {<<Call(Ident("require"), a), Call(MemberExpr(Ident("require"), "resolve"), b)>> :
             a \in TwoCallArguments, b \in TwoCallArguments}

FailInputs ==
    {Input(ty, TRUE, FALSE, "Ok", <<>>, items) :
        ty \in {"Ecmascript", "Typescript"}, items \in FailModules}

Failures ==
    {NoFailure}
    \cup {Failure(point, 0, 0) :
             point \in {"package_json", "tsconfig", "parse", "webpack_runtime", "resolve"}}
    \cup {Failure("callee", span, 0) : span \in 1..4}
    \cup {Failure("args", span, alt) : span \in 1..4, alt \in 1..2}

\* ------------------------------------------------------------------- state
VARIABLES
    input,              \* the invocation's input and the collaborators' answers
    pc,                 \* where module_references is
    references,         \* let mut references
    origins,            \* history: which stage pushed each reference
    diagnostics,        \* buf, the diagnostics the handler has buffered
    vi,                 \* the statement the visitor is at
    imports,            \* visitor.old_analyser.imports
    visitor,            \* visitor.webpack_runtime, webpack_entry, webpack_chunks
    ignore_effect_span, \* let mut ignore_effect_span
    var_graph,          \* var_graph
    ei,                 \* the effect the loop is at
    result,             \* what module_references returned: "none", "Ok" or "Err"
    printed,            \* whether buf was printed
    run,                \* which invocation this is
    first,              \* the list the first invocation returned
    resolution,         \* what resolving a returned chunk reference gave
    lowering_input,     \* the value handed to value_visitor
    lowered             \* what value_visitor returned, call after call

vars == <<input, pc, references, origins, diagnostics, vi, imports, visitor,
          ignore_effect_span, var_graph, ei, result, printed, run, first,
          failing, resolution, lowering_input, lowered>>

EmptyGraph == [values |-> <<>>, effects |-> <<>>]

is_typescript_whatever_ty == TRUE
\* let is_typescript = match &*ty { .. }
is_typescript == input.ty \in {"Typescript", "TypescriptDeclaration"}

\* the state at the entry of module_references
Entry ==
    /\ pc = "package_json"
    /\ references = <<>>
    /\ origins = <<>>
    /\ diagnostics = <<>>
    /\ vi = 1
    /\ imports = {}
    /\ visitor = VisitorState(None, FALSE, <<>>)
    /\ ignore_effect_span = None
    /\ var_graph = EmptyGraph
    /\ ei = 1
    /\ result = "none"
    /\ printed = FALSE

Init ==
    /\ input \in Inputs
    /\ Entry
    /\ run = 1
    /\ first = <<>>
    /\ failing = NoFailure
    /\ resolution = None
    /\ lowering_input = NoValue
    /\ lowered = <<>>

AbortSwallowed(diags) ==
    /\ result' = "Ok"
    /\ pc' = "done"
    /\ diagnostics' = diags
    /\ UNCHANGED <<input, references, origins, vi, imports, visitor,
                   ignore_effect_span, var_graph, ei, printed, run, first, failing,
                   resolution,
                   lowering_input, lowered>>
\* `?`: module_references returns the error; its locals, the reference list
\* among them, are dropped and nothing is printed
Abort(diags) ==
    /\ result' = "Err"
    /\ pc' = "done"
    /\ references' = <<>>
    /\ origins' = <<>>
    /\ diagnostics' = diags
    /\ UNCHANGED <<input, vi, imports, visitor, ignore_effect_span, var_graph, ei,
                   printed, run, first, failing, resolution,
                   lowering_input, lowered>>

PushFront(refs, stage) ==
    /\ references' = refs \o references
    /\ origins' = [i \in DOMAIN refs |-> Origin(stage, 0)] \o origins
\* references.push(ref) for each of `refs`, found at `stage`
Push(refs, stage) ==
    /\ references' = references \o refs
    /\ origins' = origins \o [i \in DOMAIN refs |-> Origin(stage, 0)]

FoundReferenceAlways(found, ref) == <<ref>>
\* match find_context_file(..) { Found(file) => push(ref), NotFound => {} }
FoundReference(found, ref) == IF found THEN <<ref>> ELSE <<>>

\* find_context_file(path.parent(), "package.json")
FindPackageJson ==
    /\ pc = "package_json"
    /\ IF failing.point = "package_json" THEN Abort(diagnostics)
       ELSE /\ Push(FoundReference(input.package_json,
                                   PackageJsonReference("package.json")), "direct")
            /\ pc' = "tsconfig"
            /\ UNCHANGED <<input, diagnostics, vi, imports, visitor,
                           ignore_effect_span, var_graph, ei, result, printed, run,
                           first, failing, resolution,
                   lowering_input, lowered>>

\* special_cases(path, &mut references)
special_cases(path) == <<>>

\* find_context_file(path.parent(), "tsconfig.json") for a typescript module,
\* then special_cases
FindTsConfig ==
    /\ pc = "tsconfig"
    /\ IF is_typescript /\ failing.point = "tsconfig" THEN Abort(diagnostics)
       ELSE /\ Push((IF is_typescript
                     THEN FoundReference(input.tsconfig,
                                         TsConfigReference("tsconfig.json"))
                     ELSE <<>>)
                    \o special_cases(SourcePath), "direct")
            /\ pc' = "parse"
            /\ UNCHANGED <<input, diagnostics, vi, imports, visitor,
                           ignore_effect_span, var_graph, ei, result, printed, run,
                           first, failing, resolution,
                   lowering_input, lowered>>

\* parse(source, ty)
Parse ==
    /\ pc = "parse"
    /\ IF failing.point = "parse" THEN Abort(diagnostics)
       ELSE /\ pc' = IF input.parsed = "Ok" THEN "comments" ELSE "return"
            /\ UNCHANGED <<input, references, origins, diagnostics, vi, imports,
                           visitor, ignore_effect_span, var_graph, ei, result,
                           printed, run, first, failing, resolution,
                   lowering_input, lowered>>

\* the reference of one leading comment
CommentReference(comment) ==
    IF comment.kind = "Line"
    THEN CASE comment.directive = "path" ->
                  <<TsReferencePathAssetReference(comment.value)>>
           [] comment.directive = "types" ->
                  <<TsReferenceTypeAssetReference(comment.value)>>
           [] OTHER -> <<>>
    ELSE <<>>

RECURSIVE CommentReferences(_)
CommentReferences(comments) ==
    IF comments = <<>> THEN <<>>
    ELSE CommentReference(Head(comments)) \o CommentReferences(Tail(comments))

\* the triple-slash references of the leading comments, then create_graph
LeadingComments ==
    /\ pc = "comments"
    /\ Push(IF is_typescript THEN CommentReferences(input.comments) ELSE <<>>, "direct")
    /\ var_graph' = create_graph(input.items)
    /\ pc' = "visit"
    /\ UNCHANGED <<input, diagnostics, vi, imports, visitor, ignore_effect_span,
                   ei, result, printed, run, first,
                   failing, resolution,
                   lowering_input, lowered>>

\* the statement the visitor is at
Visiting(node) ==
    /\ pc = "visit"
    /\ vi <= Len(input.items)
    /\ input.items[vi].node = node

\* RequestVc::parse of a string literal
LiteralRequest(src) == PConstant(src)

VisitExportAll ==
    /\ Visiting("ExportAll")
    /\ Push(<<EsmAssetReference(LiteralRequest(input.items[vi].src), is_typescript)>>,
            "direct")
    /\ vi' = vi + 1
    /\ UNCHANGED <<input, pc, diagnostics, imports, visitor, ignore_effect_span,
                   var_graph, ei, result, printed, run, first,
                   failing, resolution,
                   lowering_input, lowered>>

NamedExportReferencesAlways(export, ts) ==
    <<EsmAssetReference(LiteralRequest(export.src), ts)>>
\* if let Some(src) = &export.src { push }
NamedExportReferences(export, ts) ==
    IF export.has_src THEN <<EsmAssetReference(LiteralRequest(export.src), ts)>>
    ELSE <<>>

VisitNamedExport ==
    /\ Visiting("NamedExport")
    /\ Push(NamedExportReferences(input.items[vi], is_typescript), "direct")
    /\ vi' = vi + 1
    /\ UNCHANGED <<input, pc, diagnostics, imports, visitor, ignore_effect_span,
                   var_graph, ei, result, printed, run, first,
                   failing, resolution,
                   lowering_input, lowered>>

\* the reference of the declaration, then its default binding in the import table
VisitImportDecl ==
    /\ Visiting("ImportDecl")
    /\ Push(<<EsmAssetReference(LiteralRequest(input.items[vi].src), is_typescript)>>,
            "direct")
    /\ imports' = IF input.items[vi].local # ""
                  THEN ImportsInsert(imports, input.items[vi].local, input.items[vi].src,
                                     <<"default">>)
                  ELSE imports
    /\ vi' = vi + 1
    /\ UNCHANGED <<input, pc, diagnostics, visitor, ignore_effect_span,
                   var_graph, ei, result, printed, run, first,
                   failing, resolution,
                   lowering_input, lowered>>

VisitVarDeclarator ==
    /\ Visiting("VarDeclarator")
    /\ visitor' = visit_var_declarator(imports, input.items[vi], vi, visitor)
    /\ vi' = vi + 1
    /\ UNCHANGED <<input, pc, references, origins, diagnostics, imports,
                   ignore_effect_span, var_graph, ei, result, printed, run, first,
                   failing, resolution,
                   lowering_input, lowered>>

\* an expression statement: the calls in it
VisitCallExpr ==
    /\ Visiting("ExprStmt")
    /\ visitor' = VisitExpr(imports, input.items[vi].expr, visitor)
    /\ vi' = vi + 1
    /\ UNCHANGED <<input, pc, references, origins, diagnostics, imports,
                   ignore_effect_span, var_graph, ei, result, printed, run, first,
                   failing, resolution,
                   lowering_input, lowered>>

resolve_as_webpack_runtime_unchecked(request) == "Webpack5"
resolve_as_webpack_runtime(request) ==
    LET resolved == ResolverAnswer(request)
    IN IF resolved.result = "Single" THEN is_webpack_runtime(resolved.assets[1])
       ELSE "None"

\* the references of a confirmed runtime: runtime, entry, chunks
WebpackReferences(request, entry, chunks) ==
    <<WebpackRuntimeAssetReference(request)>>
        \o (IF entry THEN <<WebpackEntryAssetReference>> ELSE <<>>)
        \o [i \in DOMAIN chunks |-> WebpackChunkAssetReference(chunks[i])]

\* after the traversal: "Check if it was a webpack entry"
WebpackRuntimeCheck ==
    /\ pc = "visit"
    /\ vi > Len(input.items)
    /\ IF visitor.webpack_runtime # None /\ failing.point = "webpack_runtime"
       THEN Abort(diagnostics)
       ELSE /\ LET marker == visitor.webpack_runtime
                   request == LiteralRequest(marker[1].request)
                   confirmed == /\ marker # None
                                /\ resolve_as_webpack_runtime(request) = "Webpack5"
               IN /\ ignore_effect_span' = IF confirmed THEN Some(marker[1].span)
                                           ELSE ignore_effect_span
                  /\ Push(IF confirmed
                          THEN WebpackReferences(request, visitor.webpack_entry,
                                                 visitor.webpack_chunks)
                          ELSE <<>>, "webpack")
            /\ pc' = "effects"
            /\ UNCHANGED <<input, diagnostics, vi, imports, visitor, var_graph, ei,
                           result, printed, run, first, failing, resolution,
                   lowering_input, lowered>>

\* the effect the loop is at
AtEffect(kind) ==
    /\ pc = "effects"
    /\ ei <= Len(var_graph.effects)
    /\ var_graph.effects[ei].kind = kind

\* the state after handle_call returned `out`
Handled(out) ==
    IF out.failed THEN Abort(out.diagnostics)
    ELSE /\ references' = out.references
         /\ origins' = out.origins
         /\ diagnostics' = out.diagnostics
         /\ ei' = ei + 1
         /\ UNCHANGED <<input, pc, vi, imports, visitor, ignore_effect_span,
                        var_graph, result, printed, run, first, failing, resolution,
                   lowering_input, lowered>>

\* if ignored == span { continue }
SkipEffect ==
    /\ ei' = ei + 1
    /\ UNCHANGED <<input, pc, references, origins, diagnostics, vi, imports, visitor,
                   ignore_effect_span, var_graph, result, printed, run, first,
                   failing, resolution,
                   lowering_input, lowered>>

\* handle_call on the linked callee `func`, unless linking it answered with an
\* error
HandleLinked(effect, order, func) ==
    IF func = LinkFailure \/ failing = Failure("callee", effect.span, 0)
    THEN Abort(diagnostics)
    ELSE Handled(handle_call(var_graph, effect.span, func, effect.args, order,
                             is_typescript, Output(references, origins, diagnostics)))

HandleEffectUnconditionally(effect, order) ==
    HandleLinked(effect, order, LinkedCallee(var_graph, effect))
\* one iteration of the effect loop: skip the ignored span, or link the callee
\* and handle the call; `order` is the order in which the argument links complete
HandleEffect(effect, order) ==
    IF ignore_effect_span = Some(effect.span) THEN SkipEffect
    ELSE HandleLinked(effect, order, LinkedCallee(var_graph, effect))

EffectCall ==
    /\ AtEffect("Call")
    /\ \E order \in Permutations(DOMAIN var_graph.effects[ei].args) :
           HandleEffect(var_graph.effects[ei], order)

EffectMemberCall ==
    /\ AtEffect("MemberCall")
    /\ \E order \in Permutations(DOMAIN var_graph.effects[ei].args) :
           HandleEffect(var_graph.effects[ei], order)

FlushDiagnosticsUnconditionally ==
    /\ pc = "effects"
    /\ ei > Len(var_graph.effects)
    /\ printed' = TRUE
    /\ pc' = "return"
    /\ UNCHANGED <<input, references, origins, diagnostics, vi, imports, visitor,
                   ignore_effect_span, var_graph, ei, result, run, first,
                   failing, resolution,
                   lowering_input, lowered>>
\* after the loop: if !buf.is_empty() { println!(buf) }
FlushDiagnostics ==
    /\ pc = "effects"
    /\ ei > Len(var_graph.effects)
    /\ printed' = (diagnostics # <<>>)
    /\ pc' = "return"
    /\ UNCHANGED <<input, references, origins, diagnostics, vi, imports, visitor,
                   ignore_effect_span, var_graph, ei, result, run, first,
                   failing, resolution,
                   lowering_input, lowered>>

\* Ok(Vc::slot(references))
Return ==
    /\ pc = "return"
    /\ result' = "Ok"
    /\ pc' = "done"
    /\ UNCHANGED <<input, references, origins, diagnostics, vi, imports, visitor,
                   ignore_effect_span, var_graph, ei, printed, run, first,
                   failing, resolution,
                   lowering_input, lowered>>

Next ==
    \/ FindPackageJson
    \/ FindTsConfig
    \/ Parse
    \/ LeadingComments
    \/ VisitExportAll
    \/ VisitNamedExport
    \/ VisitImportDecl
    \/ VisitVarDeclarator
    \/ VisitCallExpr
    \/ WebpackRuntimeCheck
    \/ EffectCall
    \/ EffectMemberCall
    \/ FlushDiagnostics
    \/ Return

Spec == Init /\ [][Next]_vars

\* the webpack runtime signature
InitWebpack ==
    /\ input \in WebpackInputs
    /\ Entry
    /\ run = 1
    /\ first = <<>>
    /\ failing = NoFailure
    /\ resolution = None
    /\ lowering_input = NoValue
    /\ lowered = <<>>

\* the runtimes a WebpackChunkAssetReference is resolved with
WebpackRuntimes == {Webpack5("src"), WebpackRuntimeNone}

\* a caller resolves one of the returned chunk references
ResolveChunk ==
    /\ pc = "done"
    /\ result = "Ok"
    /\ resolution = None
    /\ lowering_input = NoValue
    /\ lowered = <<>>
    /\ \E i \in DOMAIN references, runtime \in WebpackRuntimes :
           /\ references[i].kind = "WebpackChunk"
           /\ resolution' = Some([chunk_id |-> references[i].chunk_id,
                                  runtime |-> runtime,
                                  answer |-> resolve_reference(references[i].chunk_id,
                                                               runtime)])
    /\ UNCHANGED <<input, pc, references, origins, diagnostics, vi, imports, visitor,
                   ignore_effect_span, var_graph, ei, result, printed, run, first,
                   failing, lowering_input, lowered>>

NextWebpack ==
    \/ FindPackageJson
    \/ FindTsConfig
    \/ Parse
    \/ LeadingComments
    \/ VisitImportDecl
    \/ VisitVarDeclarator
    \/ VisitCallExpr
    \/ WebpackRuntimeCheck
    \/ EffectCall
    \/ EffectMemberCall
    \/ FlushDiagnostics
    \/ Return
    \/ ResolveChunk

SpecWebpack == InitWebpack /\ [][NextWebpack]_vars

\* one call of a dynamic form
InitCall ==
    /\ input \in CallInputs
    /\ Entry
    /\ run = 1
    /\ first = <<>>
    /\ failing = NoFailure
    /\ resolution = None
    /\ lowering_input = NoValue
    /\ lowered = <<>>

NextCall ==
    \/ FindPackageJson
    \/ FindTsConfig
    \/ Parse
    \/ LeadingComments
    \/ VisitImportDecl
    \/ VisitVarDeclarator
    \/ VisitCallExpr
    \/ WebpackRuntimeCheck
    \/ EffectCall
    \/ EffectMemberCall
    \/ FlushDiagnostics
    \/ Return

SpecCall == InitCall /\ [][NextCall]_vars

\* one awaited call answers with an error
InitFail ==
    /\ input \in FailInputs
    /\ Entry
    /\ run = 1
    /\ first = <<>>
    /\ failing \in Failures
    /\ resolution = None
    /\ lowering_input = NoValue
    /\ lowered = <<>>

SpecFail == InitFail /\ [][NextCall]_vars

\* values the linker hands to the visitor: their children are linked already
LinkedLeaves ==
    {JsStr("./a"), JsStr("pkg"), JsStr("./missing"),
     Unknown(<<Argument("0")>>, "cross function analyzing is not yet supported")}

VisitValues ==
    {FreeVar(kind) :
        kind \in {"Dirname", "Filename", "Require", "Import", "NodeProcess", "Other"}}
    \cup {Module(name) :
             name \in {"path", "fs", "fs/promises", "child_process", "os", "process",
                       "lodash"}}
    \cup {Argument("0")}
    \cup {JsCall(WellKnownFunction(kind), args) :
             kind \in {"RequireResolve", "PathJoin"},
             args \in SeqsUpTo(LinkedLeaves, MaxArgs)}
    \cup {JsMember(WellKnownFunction("Require"), JsStr("resolve")),
          JsMember(WellKnownObject("PathModule"), JsStr("join")),
          JsMember(WellKnownObject("FsModule"), JsStr("readFile")),
          JsMember(WellKnownObject("ChildProcess"), JsStr("spawn")),
          JsMember(WellKnownObject("ChildProcess"), JsStr("fork")),
          JsMember(WellKnownObject("OsModule"), JsStr("arch")),
          JsMember(JsArray(<<JsStr("./a"), JsStr("pkg")>>), JsNum("0")),
          JsMember(JsArray(<<WellKnownFunction("Require")>>), JsNum("0")),
          JsMember(JsArray(<<>>), JsNum("0")),
          JsConcat(<<JsStr("./"), JsStr("a")>>),
          JsConcat(<<JsStr("./"), Unknown(<<FreeVar("Other")>>, "unknown global")>>),
          JsAlternatives(<<JsStr("./a"), JsStr("./a")>>),
          JsAlternatives(<<JsStr("./a"), JsStr("pkg")>>),
          JsAlternatives(<<WellKnownFunction("Require"),
                           JsAlternatives(<<WellKnownFunction("Import"),
                                            WellKnownFunction("Require")>>)>>),
          JsArray(<<JsStr("./a")>>),
          JsStr("./a"), JsNum("0"),
          WellKnownFunction("Require"), WellKnownObject("FsModule"),
          Unknown(<<FreeVar("Other")>>, "unknown global")}

\* the visitor on one value, and again on what it returned
InitVisit ==
    /\ input = Input("Ecmascript", FALSE, FALSE, "Ok", <<>>, <<>>)
    /\ pc = "lowering"
    /\ references = <<>>
    /\ origins = <<>>
    /\ diagnostics = <<>>
    /\ vi = 1
    /\ imports = {}
    /\ visitor = VisitorState(None, FALSE, <<>>)
    /\ ignore_effect_span = None
    /\ var_graph = EmptyGraph
    /\ ei = 1
    /\ result = "none"
    /\ printed = FALSE
    /\ run = 1
    /\ first = <<>>
    /\ failing \in {NoFailure, Failure("resolve", 0, 0)}
    /\ resolution = None
    /\ lowering_input \in VisitValues
    /\ lowered = <<>>

\* value_visitor(source, v, target)
VisitValue ==
    /\ pc = "lowering"
    /\ lowered = <<>>
    /\ lowered' = <<value_visitor(lowering_input)>>
    /\ UNCHANGED <<input, pc, references, origins, diagnostics, vi, imports, visitor,
                   ignore_effect_span, var_graph, ei, result, printed, run, first,
                   failing, resolution, lowering_input>>

\* the linker re-enters the value the visitor returned
VisitAgain ==
    /\ pc = "lowering"
    /\ Len(lowered) = 1
    /\ lowered[1][1] # LinkFailure
    /\ lowered' = Append(lowered, value_visitor(lowered[1][1]))
    /\ UNCHANGED <<input, pc, references, origins, diagnostics, vi, imports, visitor,
                   ignore_effect_span, var_graph, ei, result, printed, run, first,
                   failing, resolution, lowering_input>>

NextVisit ==
    \/ VisitValue
    \/ VisitAgain

SpecVisit == InitVisit /\ [][NextVisit]_vars

\* a second invocation with the same input and the same answers
Reinvoke ==
    /\ pc = "done"
    /\ run = 1
    /\ run' = 2
    /\ first' = references
    /\ pc' = "package_json"
    /\ references' = <<>>
    /\ origins' = <<>>
    /\ diagnostics' = <<>>
    /\ vi' = 1
    /\ imports' = {}
    /\ visitor' = VisitorState(None, FALSE, <<>>)
    /\ ignore_effect_span' = None
    /\ var_graph' = EmptyGraph
    /\ ei' = 1
    /\ result' = "none"
    /\ printed' = FALSE
    /\ UNCHANGED <<input, failing, resolution,
                   lowering_input, lowered>>

InitTwice ==
    /\ input \in Inputs \cup CallInputs
    /\ Entry
    /\ run = 1
    /\ first = <<>>
    /\ failing = NoFailure
    /\ resolution = None
    /\ lowering_input = NoValue
    /\ lowered = <<>>

NextTwice == Next \/ Reinvoke

SpecTwice == InitTwice /\ [][NextTwice]_vars

\* ------------------------------------------------------------------ claims
Returned == pc = "done" /\ result = "Ok"
ParseFailed == input.parsed \in {"Unparseable", "NotFound"}

\* the references pushed while handling the effect at `span`
RefsAt(span) ==
    LET idx == SelectSeq([i \in DOMAIN references |-> i],
                         LAMBDA i : origins[i] = Origin("effect", span))
    IN [k \in DOMAIN idx |-> references[idx[k]]]
\* the diagnostics raised for `span`
DiagsAt(span) == SelectSeq(diagnostics, LAMBDA d : d.span = span)
\* the references a stage pushed
RefsOf(stage) ==
    LET idx == SelectSeq([i \in DOMAIN references |-> i],
                         LAMBDA i : origins[i].stage = stage)
    IN [k \in DOMAIN idx |-> references[idx[k]]]

StageRank(stage) ==
    CASE stage = "direct" -> 1 [] stage = "webpack" -> 2 [] stage = "effect" -> 3
WebpackRank(kind) ==
    CASE kind = "WebpackRuntime" -> 1 [] kind = "WebpackEntry" -> 2
      [] kind = "WebpackChunk" -> 3 [] OTHER -> 0
StageKinds(stage) ==
    CASE stage = "direct" ->
             {"PackageJson", "TsConfig", "Esm", "TsReferencePath", "TsReferenceType"}
      [] stage = "webpack" -> {"WebpackRuntime", "WebpackEntry", "WebpackChunk"}
      [] stage = "effect" -> {"Esm", "Cjs", "SourceAsset"}

\* C2: in the reference list, at every point of the analysis and so in the list
\* returned, the direct references come first, then the webpack references
\* (runtime, then entry, then chunks), then the effect-derived references in
\* the order of the effect list (spans ascend with it).
C2_DiscoveryOrder ==
    /\ Len(origins) = Len(references)
    /\ \A i \in DOMAIN references : references[i].kind \in StageKinds(origins[i].stage)
    /\ \A i, j \in DOMAIN references :
           i < j =>
               /\ StageRank(origins[i].stage) <= StageRank(origins[j].stage)
               /\ (origins[i].stage = "webpack" /\ origins[j].stage = "webpack")
                      => WebpackRank(references[i].kind) <= WebpackRank(references[j].kind)
               /\ (origins[i].stage = "effect" /\ origins[j].stage = "effect")
                      => origins[i].span <= origins[j].span

C2_Witness ==
    /\ Returned
    /\ \E i, j, k \in DOMAIN references :
           /\ i < j /\ j < k
           /\ origins[i].stage = "direct"
           /\ references[j].kind = "WebpackRuntime"
           /\ references[k].kind = "Cjs" /\ origins[k].stage = "effect"

\* the specifiers of the static import, export-from and export-all
\* declarations among `items`, in source order
IsStaticEdge(item) ==
    \/ item.node \in {"ImportDecl", "ExportAll"}
    \/ item.node = "NamedExport" /\ item.has_src
StaticSpecifiers(items) ==
    LET edges == SelectSeq(items, IsStaticEdge)
    IN [i \in DOMAIN edges |-> edges[i].src]
\* the requests of the ESM references the visitor pushed
DirectEsmRequests ==
    LET esm == SelectSeq(RefsOf("direct"), LAMBDA r : r.kind = "Esm")
    IN [i \in DOMAIN esm |-> esm[i].request]

\* C3: for a parsed module, once the visitor has passed a prefix of the module
\* (and so for the whole module in the list returned), the ESM references it
\* pushed are exactly one per import, export-from and export-all declaration of
\* that prefix, each with the declaration's literal specifier as its request,
\* in source order; a named export without a source contributes none.
C3_StaticEdges ==
    (input.parsed = "Ok" /\ pc \in {"visit", "effects", "return", "done"}) =>
        DirectEsmRequests =
            [i \in DOMAIN StaticSpecifiers(SubSeq(input.items, 1, vi - 1)) |->
                PConstant(StaticSpecifiers(SubSeq(input.items, 1, vi - 1))[i])]

C3_Witness ==
    /\ Returned
    /\ \E i, j \in DOMAIN input.items :
           /\ i < j
           /\ input.items[i].node = "NamedExport" /\ ~input.items[i].has_src
           /\ input.items[j].node = "NamedExport" /\ input.items[j].has_src
    /\ Len(DirectEsmRequests) = 1

\* the effects the loop has been through
HandledEffects ==
    IF pc \in {"effects", "return", "done"}
    THEN {k \in DOMAIN var_graph.effects : k < ei} ELSE {}
Suppressed(effect) == ignore_effect_span = Some(effect.span)
\* the dynamic form an effect's callee links to, or "none"
FormOf(effect) ==
    LET func == LinkedCallee(var_graph, effect)
    IN CASE IsWellKnownFunction(func, "Import") -> "Import"
         [] IsWellKnownFunction(func, "Require") -> "Require"
         [] IsWellKnownFunction(func, "RequireResolve") -> "RequireResolve"
         [] OTHER -> "none"
FormKind(form) == IF form = "Import" THEN "Esm" ELSE "Cjs"
FormCode(form) ==
    CASE form = "Import" -> "DYNAMIC_IMPORT"
      [] form = "Require" -> "REQUIRE"
      [] form = "RequireResolve" -> "REQUIRE_RESOLVE"
\* the pattern of an effect's first argument after linking
FirstPattern(effect) == js_value_to_pattern(link(var_graph, effect.args[1]))
IsDynamicFormCall(effect) == ~Suppressed(effect) /\ FormOf(effect) # "none"

\* C4: a non-suppressed call of import(), require() or require.resolve() with
\* exactly one argument whose pattern has constant parts leaves exactly one
\* reference, of kind ESM, CJS and CJS respectively and with that pattern as
\* its request, and no diagnostic.
C4_OneReferenceNoDiagnostic ==
    \A k \in HandledEffects :
        (/\ IsDynamicFormCall(var_graph.effects[k])
         /\ Len(var_graph.effects[k].args) = 1
         /\ has_constant_parts(FirstPattern(var_graph.effects[k])))
        => /\ RefsAt(var_graph.effects[k].span) =
                  <<Ref(FormKind(FormOf(var_graph.effects[k])),
                        FirstPattern(var_graph.effects[k]),
                        input.ty # "Ecmascript", NoExpr)>>
           /\ DiagsAt(var_graph.effects[k].span) = <<>>

C4_Witness ==
    /\ Returned
    /\ \E k \in HandledEffects :
           /\ FormOf(var_graph.effects[k]) = "RequireResolve"
           /\ Len(var_graph.effects[k].args) = 1
           /\ FirstPattern(var_graph.effects[k]).tag = "Concatenation"
           /\ Len(RefsAt(var_graph.effects[k].span)) = 1

\* C5: a non-suppressed call of import(), require() or require.resolve() with
\* exactly one argument whose pattern has no constant parts leaves exactly one
\* lint diagnostic, with code DYNAMIC_IMPORT, REQUIRE and REQUIRE_RESOLVE
\* respectively, and exactly one reference of the form's kind.
C5_OneLintOneReference ==
    \A k \in HandledEffects :
        (/\ IsDynamicFormCall(var_graph.effects[k])
         /\ Len(var_graph.effects[k].args) = 1
         /\ ~has_constant_parts(FirstPattern(var_graph.effects[k])))
        => /\ DiagsAt(var_graph.effects[k].span) =
                  <<Diagnostic("Lint", FormCode(FormOf(var_graph.effects[k])),
                               var_graph.effects[k].span)>>
           /\ Len(RefsAt(var_graph.effects[k].span)) = 1
           /\ RefsAt(var_graph.effects[k].span)[1].kind =
                  FormKind(FormOf(var_graph.effects[k]))

C5_Witness ==
    /\ Returned
    /\ \E k \in HandledEffects :
           /\ FormOf(var_graph.effects[k]) = "Import"
           /\ Len(var_graph.effects[k].args) = 1
           /\ FirstPattern(var_graph.effects[k]) = PDynamic
           /\ Len(DiagsAt(var_graph.effects[k].span)) = 1

\* C6: a non-suppressed call of import(), require() or require.resolve() whose
\* argument count is not exactly one leaves no reference and exactly one
\* error diagnostic with the form's code, and the invocation still returns
\* successfully.
C6_ArityError ==
    \A k \in HandledEffects :
        (/\ IsDynamicFormCall(var_graph.effects[k])
         /\ Len(var_graph.effects[k].args) # 1)
        => /\ RefsAt(var_graph.effects[k].span) = <<>>
           /\ DiagsAt(var_graph.effects[k].span) =
                  <<Diagnostic("Error", FormCode(FormOf(var_graph.effects[k])),
                               var_graph.effects[k].span)>>
           /\ pc = "done" => result = "Ok"

C6_Witness ==
    /\ Returned
    /\ \E k \in HandledEffects :
           /\ FormOf(var_graph.effects[k]) = "Require"
           /\ Len(var_graph.effects[k].args) = 2
           /\ Len(DiagsAt(var_graph.effects[k].span)) = 1
    /\ printed

\* the runtime declarators of the module that resolve to a webpack 5 runtime
ConfirmedDeclarators ==
    {i \in DOMAIN input.items :
        /\ input.items[i].node = "VarDeclarator"
        /\ IsRuntimeDeclarator(input.items[i])
        /\ resolve_as_webpack_runtime(
               LiteralRequest(CallArgs(input.items[i].expr)[1].name)) = "Webpack5"}
RuntimeDeclarators ==
    {i \in DOMAIN input.items :
        input.items[i].node = "VarDeclarator" /\ IsRuntimeDeclarator(input.items[i])}
NothingAt(span) == RefsAt(span) = <<>> /\ DiagsAt(span) = <<>>

\* C7 (as claimed): for every runtime declarator of the module whose literal
\* resolves to a webpack 5 runtime, the effect at that declarator's require
\* call is skipped: it leaves no reference and no diagnostic.
C7_EveryConfirmedDeclaratorSuppressed ==
    pc \in {"return", "done"} => \A i \in ConfirmedDeclarators : NothingAt(i)

\* C7 (amended): only the runtime declarator visited last is recorded; when
\* its literal resolves to a webpack 5 runtime, the effect at that
\* declarator's require call is skipped and leaves no reference and no
\* diagnostic. The require calls of the earlier runtime declarators are
\* handled like any other require call.
C7_LastDeclaratorSuppressed ==
    pc \in {"return", "done"} =>
        \A i \in ConfirmedDeclarators :
            (\A j \in RuntimeDeclarators : j <= i)
            => (ignore_effect_span = Some(i) /\ NothingAt(i))

C7_Witness ==
    /\ Returned
    /\ \E i, j \in ConfirmedDeclarators :
           /\ i < j
           /\ \A m \in RuntimeDeclarators : m <= j
           /\ NothingAt(j)
           /\ Len(RefsAt(i)) = 1

\* whether an item is a call __webpack_require__.X(a, [..], c)
IsChunkCall(item) ==
    /\ item.node = "ExprStmt"
    /\ CallCallee(item.expr) = MemberExpr(Ident(WebpackRequire), "X")
    /\ Len(CallArgs(item.expr)) = 3
    /\ CallArgs(item.expr)[2].tag = "Array"
\* whether an import declaration before item i binds __webpack_require__
BoundByImport(i) ==
    \E j \in DOMAIN input.items :
        j < i /\ input.items[j].node = "ImportDecl" /\ input.items[j].local = WebpackRequire
\* the literal elements of the chunk calls among items i.., in traversal
\* order; with `free` only of the calls no import declaration shadows
RECURSIVE LiteralChunkIds(_, _)
LiteralChunkIds(i, free) ==
    IF i > Len(input.items) THEN <<>>
    ELSE (IF IsChunkCall(input.items[i]) /\ (free => ~BoundByImport(i))
          THEN SelectSeq(CallArgs(input.items[i].expr)[2].args, IsLit)
          ELSE <<>>) \o LiteralChunkIds(i + 1, free)
RuntimeConfirmed ==
    /\ pc \in {"effects", "return", "done"}
    /\ visitor.webpack_runtime # None
    /\ resolve_as_webpack_runtime(LiteralRequest(visitor.webpack_runtime[1].request))
           = "Webpack5"
\* the chunk ids of the WebpackChunk references, in list order
ChunkReferenceIds ==
    LET chunks == SelectSeq(references, LAMBDA r : r.kind = "WebpackChunk")
    IN [i \in DOMAIN chunks |-> chunks[i].chunk_id]

\* C8 (as claimed): when the runtime is confirmed, the WebpackChunk references
\* are one per literal element of the second argument of every call
\* __webpack_require__.X(a, [..], c), in traversal order; identifiers, spreads
\* and holes contribute nothing.
C8_ChunkPerLiteralElement ==
    RuntimeConfirmed => ChunkReferenceIds = LiteralChunkIds(1, FALSE)

\* C8 (amended): when the runtime is confirmed, the WebpackChunk references
\* are one per literal element of the second argument of every call
\* __webpack_require__.X(a, [..], c) whose callee is the free variable
\* __webpack_require__, that is, not bound by an import declaration visited
\* before the call, in traversal order; identifiers, spreads and holes
\* contribute nothing, and a call on an import-bound __webpack_require__
\* contributes nothing.
C8_ChunkPerLiteralElementOfFreeCalls ==
    RuntimeConfirmed => ChunkReferenceIds = LiteralChunkIds(1, TRUE)

C8_Witness ==
    /\ Returned
    /\ RuntimeConfirmed
    /\ ChunkReferenceIds = <<LitStr("a"), LitBigInt("1"), LitNum("7")>>
    /\ diagnostics = <<>>

\* C9 (as claimed): every WebpackChunk reference carries a string or number
\* literal as its chunk id, so that its chunk id has a text and resolving or
\* describing it never reaches the unimplemented branch.
C9_ChunkIdsStrOrNum ==
    \A i \in DOMAIN references :
        references[i].kind = "WebpackChunk" =>
            /\ references[i].chunk_id.tag \in {"LitStr", "LitNum"}
            /\ ChunkIdText(references[i].chunk_id) # None

EffectsAt(span) ==
    {k \in DOMAIN var_graph.effects :
        var_graph.effects[k].span = span /\ ~Suppressed(var_graph.effects[k])}
\* whether handle_call awaits linked_args() for the callee `func`
AwaitsArguments(func, effect) ==
    \/ func.tag = "WellKnownFunction"
       /\ func.name \in {"Import", "Require", "RequireResolve", "FsReadMethod",
                         "ChildProcessSpawnMethod"}
    \/ /\ IsWellKnownFunction(func, "PathJoin")
       /\ ~has_constant_parts(js_value_to_pattern(
              link(var_graph, JsCall(WellKnownFunction("PathJoin"), effect.args))))
    \/ /\ IsWellKnownFunction(func, "ChildProcessFork")
       /\ effect.args # <<>>
       /\ ~has_constant_parts(FirstPattern(effect))
\* the callee handled as alternative `alt` of the effect
AlternativeOf(effect, alt) ==
    LET func == LinkedCallee(var_graph, effect)
    IN IF func.tag = "Alternatives"
       THEN (IF alt \in DOMAIN func.args THEN func.args[alt] ELSE NoValue)
       ELSE (IF alt = 1 THEN func ELSE NoValue)
\* whether the invocation awaits the call that answers with an error
FailureAwaited ==
    CASE failing.point \in {"package_json", "parse"} -> TRUE
      [] failing.point = "tsconfig" -> input.ty # "Ecmascript"
      [] failing.point = "webpack_runtime" -> RuntimeDeclarators # {}
      [] failing.point = "callee" -> EffectsAt(failing.span) # {}
      [] failing.point = "args" ->
             \E k \in EffectsAt(failing.span) :
                 /\ var_graph.effects[k].args # <<>>
                 /\ AwaitsArguments(AlternativeOf(var_graph.effects[k], failing.alt),
                                    var_graph.effects[k])
      [] failing.point = "resolve" ->
             \E k \in DOMAIN var_graph.effects :
                 /\ ~Suppressed(var_graph.effects[k])
                 /\ AwaitsArguments(LinkedCallee(var_graph, var_graph.effects[k]),
                                    var_graph.effects[k])
                 /\ \E i \in DOMAIN var_graph.effects[k].args :
                        link(var_graph, var_graph.effects[k].args[i]) = LinkFailure
      [] OTHER -> FALSE
\* no effect after the one whose link failed was handled: the loop stopped at
\* it (before the loop for the calls awaited earlier) and no diagnostic is of
\* a later span
StoppedAtFailure ==
    IF failing.point \in {"callee", "args"}
    THEN /\ ei \in EffectsAt(failing.span)
         /\ \A i \in DOMAIN diagnostics : diagnostics[i].span <= failing.span
    ELSE IF failing.point = "resolve"
    THEN /\ ei \in DOMAIN var_graph.effects
         /\ \A i \in DOMAIN diagnostics :
                diagnostics[i].span <= var_graph.effects[ei].span
    ELSE ei = 1 /\ diagnostics = <<>>

\* C11: when an awaited external call answers with an error (a context-file
\* lookup, the parse, the webpack runtime resolution, the link of a callee or
\* of the arguments, the resolver inside the require.resolve lowering),
\* module_references returns the error and no reference list: the references
\* collected so far are dropped and no later effect is handled.
C11_FailurePropagates ==
    pc = "done" =>
        /\ FailureAwaited =>
               (result = "Err" /\ references = <<>> /\ ~printed /\ StoppedAtFailure)
        /\ result = "Err" => references = <<>>

C11_Witness ==
    /\ pc = "done"
    /\ result = "Err"
    /\ failing.point = "resolve"
    /\ input.package_json
    /\ ei = 2
    /\ references = <<>>

\* the callees handle_call has an arm for
RecognisedForms ==
    {"Import", "Require", "RequireResolve", "FsReadMethod", "PathJoin",
     "ChildProcessSpawnMethod", "ChildProcessFork"}
Recognised(func) ==
    \/ func.tag = "WellKnownFunction" /\ func.name \in RecognisedForms
    \/ /\ func.tag = "Alternatives"
       /\ \E i \in DOMAIN func.args :
              /\ func.args[i].tag = "WellKnownFunction"
              /\ func.args[i].name \in RecognisedForms

\* C12 (as claimed): for every non-suppressed call or member-call effect for
\* which the handler emits no reference, at least one diagnostic is raised for
\* the effect's span.
C12_DiagnosticWheneverNoReference ==
    \A k \in HandledEffects :
        (/\ ~Suppressed(var_graph.effects[k])
         /\ RefsAt(var_graph.effects[k].span) = <<>>)
        => DiagsAt(var_graph.effects[k].span) # <<>>

\* C12 (amended): for every non-suppressed effect whose linked callee is one
\* of the forms handle_call has an arm for (or alternatives holding one) and
\* for which the handler emits no reference, at least one diagnostic is raised
\* for the effect's span; a non-suppressed effect whose linked callee is a
\* single value of no such form leaves neither a reference nor a diagnostic.
C12_DiagnosticWhenFormUnresolved ==
    \A k \in HandledEffects :
        ~Suppressed(var_graph.effects[k]) =>
            /\ (/\ Recognised(LinkedCallee(var_graph, var_graph.effects[k]))
                /\ RefsAt(var_graph.effects[k].span) = <<>>)
               => DiagsAt(var_graph.effects[k].span) # <<>>
            /\ (/\ ~Recognised(LinkedCallee(var_graph, var_graph.effects[k]))
                /\ LinkedCallee(var_graph, var_graph.effects[k]).tag # "Alternatives")
               => NothingAt(var_graph.effects[k].span)

C12_Witness ==
    /\ Returned
    /\ \E k \in HandledEffects :
           /\ IsWellKnownFunction(LinkedCallee(var_graph, var_graph.effects[k]),
                                  "ChildProcessFork")
           /\ RefsAt(var_graph.effects[k].span) = <<>>
           /\ DiagsAt(var_graph.effects[k].span) =
                  <<Diagnostic("Error", "CHILD_PROCESS_SPAWN",
                               var_graph.effects[k].span)>>

KindsOf(refs) == {refs[i].kind : i \in DOMAIN refs}

\* C13: a TsReferencePath, TsReferenceType or TsConfig reference is in the
\* list only when the module type is Typescript or TypescriptDeclaration (never
\* for an Ecmascript module, whatever its leading comments), and every ESM or
\* CJS reference carries from-typescript equal to that gate.
C13_TypescriptGate ==
    /\ (KindsOf(references) \cap {"TsReferencePath", "TsReferenceType", "TsConfig"} # {})
       => input.ty \in {"Typescript", "TypescriptDeclaration"}
    /\ \A i \in DOMAIN references :
           references[i].kind \in {"Esm", "Cjs"} =>
               (references[i].from_typescript
                    <=> input.ty \in {"Typescript", "TypescriptDeclaration"})

C13_Witness ==
    /\ Returned
    /\ input.ty = "TypescriptDeclaration"
    /\ {"TsConfig", "TsReferencePath", "TsReferenceType"} \subseteq KindsOf(references)
    /\ \E i \in DOMAIN references :
           references[i].kind = "Cjs" /\ references[i].from_typescript

\* C14: resolve_reference of a WebpackChunkAssetReference returns
\* Unresolveable when the runtime is None, and otherwise a Single result whose
\* asset is the webpack module at ./chunks/<id>.js joined to the runtime's
\* context path, with an empty reference list; it never returns Alternatives.
C14_UnresolveableOrSingle ==
    resolution # None =>
        IF resolution[1].runtime = WebpackRuntimeNone
        THEN resolution[1].answer.result = "Unresolveable"
        ELSE /\ resolution[1].answer.result = "Single"
             /\ resolution[1].answer.references = <<>>
             /\ resolution[1].answer.assets =
                    <<[path |-> [dir |-> resolution[1].runtime.context_path,
                                 file |-> "./chunks/" \o resolution[1].chunk_id.name
                                              \o ".js"],
                       runtime |-> resolution[1].runtime]>>

WebpackKinds == {"WebpackRuntime", "WebpackEntry", "WebpackChunk"}
\* the recorded runtime request resolves to a single asset that is recognised
\* as a webpack 5 runtime
MarkerIsWebpack5 ==
    /\ visitor.webpack_runtime # None
    /\ ResolverAnswer(PConstant(visitor.webpack_runtime[1].request)).result = "Single"
    /\ is_webpack_runtime(
           ResolverAnswer(PConstant(visitor.webpack_runtime[1].request)).assets[1])
           = "Webpack5"

\* C15: a WebpackEntry or WebpackChunk reference comes only after a
\* WebpackRuntime reference of the same list; and when the recorded runtime
\* request does not resolve to a single asset recognised as webpack 5, no
\* WebpackRuntime, WebpackEntry or WebpackChunk reference is emitted, whatever
\* .C and .X calls were seen, and the effect of the recorded require call is
\* handled as any require call: one CJS reference to its literal.
C15_OnlyConfirmedRuntime ==
    /\ \A i \in DOMAIN references :
           references[i].kind \in {"WebpackEntry", "WebpackChunk"} =>
               \E j \in 1..(i - 1) : references[j].kind = "WebpackRuntime"
    /\ (pc \in {"effects", "return", "done"} /\ ~MarkerIsWebpack5) =>
           /\ KindsOf(references) \cap WebpackKinds = {}
           /\ ignore_effect_span = None
           /\ (visitor.webpack_runtime # None /\ pc \in {"return", "done"}) =>
                  /\ RefsAt(visitor.webpack_runtime[1].span) =
                         <<CjsAssetReference(
                               PConstant(visitor.webpack_runtime[1].request), FALSE)>>
                  /\ DiagsAt(visitor.webpack_runtime[1].span) = <<>>

C15_Witness ==
    /\ Returned
    /\ visitor.webpack_runtime # None
    /\ visitor.webpack_runtime[1].request = "pkg"
    /\ visitor.webpack_entry
    /\ visitor.webpack_chunks # <<>>
    /\ KindsOf(references) = {"Cjs"}

\* the runtime declarator the visitor met last
LastRuntimeDeclarator == CHOOSE i \in RuntimeDeclarators : \A j \in RuntimeDeclarators : j <= i

\* C16 (as claimed): the runtime marker is recorded only for a declarator
\* var __webpack_require__ = require("<literal>") at the top level of the
\* module; a nested declarator of that shape does not set the marker and leads
\* to no webpack reference and no suppressed effect.
C16_MarkerOnlyAtTopLevel ==
    /\ visitor.webpack_runtime # None =>
           input.items[visitor.webpack_runtime[1].span].depth = 0
    /\ (\A i \in RuntimeDeclarators : input.items[i].depth > 0) =>
           /\ KindsOf(references) \cap WebpackKinds = {}
           /\ ignore_effect_span = None

\* C16 (amended): the runtime marker is recorded for a declarator
\* var __webpack_require__ = require("<literal>") wherever the traversal meets
\* it, at the top level or nested inside a function or block: after the
\* traversal the marker is that of the last such declarator, and when that one
\* is nested and its literal resolves to a webpack 5 runtime, the
\* WebpackRuntime reference is emitted and the effect of its require call is
\* suppressed.
C16_MarkerAtAnyDepth ==
    pc \in {"effects", "return", "done"} =>
        IF RuntimeDeclarators = {} THEN visitor.webpack_runtime = None
        ELSE /\ visitor.webpack_runtime =
                    Some([request |->
                              CallArgs(input.items[LastRuntimeDeclarator].expr)[1].name,
                          span |-> LastRuntimeDeclarator])
             /\ (/\ input.items[LastRuntimeDeclarator].depth > 0
                 /\ MarkerIsWebpack5) =>
                    /\ "WebpackRuntime" \in KindsOf(references)
                    /\ ignore_effect_span = Some(LastRuntimeDeclarator)
                    /\ NothingAt(LastRuntimeDeclarator)

C16_Witness ==
    /\ Returned
    /\ RuntimeDeclarators # {}
    /\ \A i \in RuntimeDeclarators : input.items[i].depth > 0
    /\ visitor.webpack_runtime # None
    /\ ignore_effect_span = Some(LastRuntimeDeclarator)
    /\ "WebpackChunk" \in KindsOf(references)

\* the non-suppressed effects handled so far whose linked callee is `kind`
HandledCallsOf(kind) ==
    {k \in HandledEffects :
        /\ ~Suppressed(var_graph.effects[k])
        /\ IsWellKnownFunction(LinkedCallee(var_graph, var_graph.effects[k]), kind)}
\* one lint with `code` for `span` when `dynamic`, otherwise no diagnostic
LintWhen(dynamic, code, span) ==
    IF dynamic THEN <<Diagnostic("Lint", code, span)>> ELSE <<>>

\* C17: a non-suppressed effect whose linked callee is an fs read method
\* leaves, with at least one argument, exactly one raw reference to the
\* pattern of the first linked argument and one FS_METHOD lint exactly when
\* that pattern has no constant parts; with no argument it leaves no reference
\* and exactly one FS_METHOD error.
C17_FsReadMethod ==
    \A k \in HandledCallsOf("FsReadMethod") :
        IF var_graph.effects[k].args # <<>>
        THEN /\ RefsAt(var_graph.effects[k].span) =
                    <<Ref("SourceAsset", FirstPattern(var_graph.effects[k]), FALSE, NoExpr)>>
             /\ DiagsAt(var_graph.effects[k].span) =
                    LintWhen(~has_constant_parts(FirstPattern(var_graph.effects[k])),
                             "FS_METHOD", var_graph.effects[k].span)
        ELSE /\ RefsAt(var_graph.effects[k].span) = <<>>
             /\ DiagsAt(var_graph.effects[k].span) =
                    <<Diagnostic("Error", "FS_METHOD", var_graph.effects[k].span)>>

C17_Witness ==
    /\ Returned
    /\ \E k \in HandledCallsOf("FsReadMethod") :
           /\ Len(var_graph.effects[k].args) = 2
           /\ FirstPattern(var_graph.effects[k]) = PDynamic
           /\ Len(RefsAt(var_graph.effects[k].span)) = 1
           /\ Len(DiagsAt(var_graph.effects[k].span)) = 1

\* the pattern of element 0 of the linked second argument of an effect
ScriptPattern(effect) ==
    js_value_to_pattern(
        link(var_graph, JsMember(link(var_graph, effect.args[2]), JsNum("0"))))
\* whether spawn runs node on a script: the command's pattern matches "node"
\* and there is a second argument
SpawnsNode(effect) ==
    Len(effect.args) >= 2 /\ is_match(FirstPattern(effect), "node")

\* C18: a non-suppressed effect whose linked callee is a child_process spawn
\* method leaves, with at least one argument, a raw reference to the pattern
\* of the first argument, preceded by a CJS reference to element 0 of the
\* linked second argument when the first pattern matches "node" and there are
\* at least two arguments, and one CHILD_PROCESS_SPAWN lint exactly when the
\* first pattern or that element's pattern has no constant parts; with no
\* argument it leaves no reference and one error.
C18_ChildProcessSpawn ==
    \A k \in HandledCallsOf("ChildProcessSpawnMethod") :
        IF var_graph.effects[k].args # <<>>
        THEN /\ RefsAt(var_graph.effects[k].span) =
                    (IF SpawnsNode(var_graph.effects[k])
                     THEN <<Ref("Cjs", ScriptPattern(var_graph.effects[k]),
                                input.ty # "Ecmascript", NoExpr)>>
                     ELSE <<>>)
                    \o <<Ref("SourceAsset", FirstPattern(var_graph.effects[k]),
                             FALSE, NoExpr)>>
             /\ DiagsAt(var_graph.effects[k].span) =
                    LintWhen(\/ ~has_constant_parts(FirstPattern(var_graph.effects[k]))
                             \/ /\ SpawnsNode(var_graph.effects[k])
                                /\ ~has_constant_parts(
                                       ScriptPattern(var_graph.effects[k])),
                             "CHILD_PROCESS_SPAWN", var_graph.effects[k].span)
        ELSE /\ RefsAt(var_graph.effects[k].span) = <<>>
             /\ DiagsAt(var_graph.effects[k].span) =
                    <<Diagnostic("Error", "CHILD_PROCESS_SPAWN",
                                 var_graph.effects[k].span)>>

C18_Witness ==
    /\ Returned
    /\ \E k \in HandledCallsOf("ChildProcessSpawnMethod") :
           /\ Len(var_graph.effects[k].args) = 2
           /\ FirstPattern(var_graph.effects[k]) = PConstant("node")
           /\ ~has_constant_parts(ScriptPattern(var_graph.effects[k]))
           /\ Len(RefsAt(var_graph.effects[k].span)) = 2
           /\ Len(DiagsAt(var_graph.effects[k].span)) = 1

\* the pattern of the linked call of path.join on an effect's arguments
JoinedPattern(effect) ==
    js_value_to_pattern(
        link(var_graph, JsCall(WellKnownFunction("PathJoin"), effect.args)))

\* C19: a non-suppressed effect whose linked callee is path.join leaves, for
\* any number of arguments, none included, exactly one raw reference to the
\* pattern of the linked Call(PathJoin, args), no error diagnostic, and one
\* PATH_METHOD lint exactly when that pattern has no constant parts.
C19_PathJoin ==
    \A k \in HandledCallsOf("PathJoin") :
        /\ RefsAt(var_graph.effects[k].span) =
               <<Ref("SourceAsset", JoinedPattern(var_graph.effects[k]), FALSE, NoExpr)>>
        /\ DiagsAt(var_graph.effects[k].span) =
               LintWhen(~has_constant_parts(JoinedPattern(var_graph.effects[k])),
                        "PATH_METHOD", var_graph.effects[k].span)

C19_Witness ==
    /\ Returned
    /\ \E k \in HandledCallsOf("PathJoin") :
           /\ var_graph.effects[k].args = <<>>
           /\ Len(RefsAt(var_graph.effects[k].span)) = 1
           /\ DiagsAt(var_graph.effects[k].span) = <<>>

\* what handle_call leaves for alternative `i` of an effect's callee when it
\* is handled alone, from nothing
Alone(effect, alt, i) ==
    handle_call(var_graph, effect.span, alt, effect.args,
                [j \in DOMAIN effect.args |-> j], input.ty # "Ecmascript",
                [Output(<<>>, <<>>, <<>>) EXCEPT !.alt = i])
\* the references, and the diagnostics, of the first n alternatives, each
\* handled alone, one after the other
RECURSIVE AloneReferences(_, _, _)
AloneReferences(effect, alts, n) ==
    IF n = 0 THEN <<>>
    ELSE AloneReferences(effect, alts, n - 1) \o Alone(effect, alts[n], n).references
RECURSIVE AloneDiagnostics(_, _, _)
AloneDiagnostics(effect, alts, n) ==
    IF n = 0 THEN <<>>
    ELSE AloneDiagnostics(effect, alts, n - 1) \o Alone(effect, alts[n], n).diagnostics
\* the alternatives of the linked callee of an effect
AlternativesOf(effect) == LinkedCallee(var_graph, effect).args
\* the non-suppressed effects whose linked callee is Alternatives(alts)
AlternativeCalls ==
    {k \in DOMAIN var_graph.effects :
        /\ pc \in {"effects", "return", "done"}
        /\ ~Suppressed(var_graph.effects[k])
        /\ LinkedCallee(var_graph, var_graph.effects[k]).tag = "Alternatives"}
\* the effect the link of whose arguments fails, in alternative failing.alt
FailsInAlternative(k) ==
    /\ failing.point = "args"
    /\ failing.span = var_graph.effects[k].span
    /\ failing.alt \in DOMAIN AlternativesOf(var_graph.effects[k])
    /\ var_graph.effects[k].args # <<>>
    /\ AwaitsArguments(AlternativesOf(var_graph.effects[k])[failing.alt],
                       var_graph.effects[k])

\* C20: when the linked callee of an effect is Alternatives(alts), the
\* references and the diagnostics of the effect are the concatenation, in the
\* order of the alternatives, of what handle_call leaves for each alternative
\* alone with the same span and arguments, duplicates kept; when handling one
\* alternative fails, the alternatives after it are not handled: the
\* diagnostics of the effect are those of the alternatives before it, and the
\* invocation returns the failure.
C20_AlternativesInOrder ==
    \A k \in AlternativeCalls :
        /\ k \in HandledEffects =>
               /\ RefsAt(var_graph.effects[k].span) =
                      AloneReferences(var_graph.effects[k],
                                      AlternativesOf(var_graph.effects[k]),
                                      Len(AlternativesOf(var_graph.effects[k])))
               /\ DiagsAt(var_graph.effects[k].span) =
                      AloneDiagnostics(var_graph.effects[k],
                                       AlternativesOf(var_graph.effects[k]),
                                       Len(AlternativesOf(var_graph.effects[k])))
        /\ (pc = "done" /\ FailsInAlternative(k)) =>
               /\ result = "Err"
               /\ references = <<>>
               /\ DiagsAt(var_graph.effects[k].span) =
                      AloneDiagnostics(var_graph.effects[k],
                                       AlternativesOf(var_graph.effects[k]),
                                       failing.alt - 1)

C20_Witness ==
    /\ pc = "done"
    /\ result = "Err"
    /\ \E k \in AlternativeCalls :
           /\ FailsInAlternative(k)
           /\ failing.alt = 2
           /\ AlternativesOf(var_graph.effects[k]) =
                  <<WellKnownFunction("Require"), WellKnownFunction("RequireResolve")>>
           /\ DiagsAt(var_graph.effects[k].span) =
                  <<Diagnostic("Error", "REQUIRE", var_graph.effects[k].span)>>

\* the module names the visitor lowers to a well-known object
RecognisedModules == {"path", "fs", "fs/promises", "child_process", "os", "process"}
\* the effects that call a module other than those, or a member of it
ForeignModuleCalls ==
    {k \in DOMAIN var_graph.effects :
        /\ pc \in {"effects", "return", "done"}
        /\ \/ /\ var_graph.effects[k].kind = "Call"
              /\ var_graph.effects[k].func.tag = "Module"
              /\ var_graph.effects[k].func.name \notin RecognisedModules
           \/ /\ var_graph.effects[k].kind = "MemberCall"
              /\ var_graph.effects[k].obj.tag = "Module"
              /\ var_graph.effects[k].obj.name \notin RecognisedModules}
\* the value such a module is lowered to
CrossModule(name) ==
    [tag |-> "Unknown", name |-> "cross module analyzing is not yet supported",
     args |-> <<[tag |-> "Module", name |-> name, args |-> <<>>]>>]

\* C21: a Module(name) whose name is none of path, fs, fs/promises,
\* child_process, os, process is lowered to Unknown "cross module analyzing is
\* not yet supported"; an effect whose linked callee is that Unknown, or any
\* value other than Alternatives or a well-known function the handler has an
\* arm for, leaves no reference and no diagnostic, and handling it does not
\* fail even when the link of its arguments would.
C21_ForeignModuleIsUnknown ==
    /\ \A k \in ForeignModuleCalls :
           IF var_graph.effects[k].kind = "Call"
           THEN LinkedCallee(var_graph, var_graph.effects[k]) =
                    CrossModule(var_graph.effects[k].func.name)
           ELSE /\ link(var_graph, var_graph.effects[k].obj) =
                       CrossModule(var_graph.effects[k].obj.name)
                /\ ~Recognised(LinkedCallee(var_graph, var_graph.effects[k]))
    /\ \A k \in HandledEffects :
           (/\ ~Suppressed(var_graph.effects[k])
            /\ ~Recognised(LinkedCallee(var_graph, var_graph.effects[k])))
           => NothingAt(var_graph.effects[k].span)
    /\ (pc = "done" /\ failing.point = "args") =>
           \A k \in ForeignModuleCalls :
               /\ result = "Ok"
               /\ k \in HandledEffects
               /\ NothingAt(var_graph.effects[k].span)

C21_Witness ==
    /\ pc = "done"
    /\ result = "Ok"
    /\ failing = Failure("args", 2, 1)
    /\ \E k \in ForeignModuleCalls :
           /\ var_graph.effects[k].kind = "MemberCall"
           /\ var_graph.effects[k].span = 2
           /\ var_graph.effects[k].args # <<>>
           /\ k \in HandledEffects
           /\ NothingAt(2)

\* the visitor has returned a value for lowering_input
Lowered == Len(lowered) >= 1 /\ lowered[1][1] # LinkFailure
\* a string constant of the value lattice
StringValue(text) == [tag |-> "Str", name |-> text, args |-> <<>>]
UnknownValue(origin, reason) == [tag |-> "Unknown", name |-> reason, args |-> <<origin>>]
WellKnown(tag, kind) == [tag |-> tag, name |-> kind, args |-> <<>>]
\* whether one of the visitor's own rules matches the value
MatchesOwnRule(v) ==
    \/ v.tag \in {"FreeVar", "Module", "Argument"}
    \/ v.tag = "JsCall" /\ v.args[1] = WellKnown("WellKnownFunction", "RequireResolve")
\* what the rules for a FreeVar, a Module or an Argument give
RuleValue(v) ==
    CASE v.tag = "FreeVar" /\ v.name = "Dirname" -> StringValue("/ROOT/src")
      [] v.tag = "FreeVar" /\ v.name = "Filename" -> StringValue("/ROOT/src/index.js")
      [] v.tag = "FreeVar" /\ v.name = "Require" -> WellKnown("WellKnownFunction", "Require")
      [] v.tag = "FreeVar" /\ v.name = "Import" -> WellKnown("WellKnownFunction", "Import")
      [] v.tag = "FreeVar" /\ v.name = "NodeProcess" ->
             WellKnown("WellKnownObject", "NodeProcess")
      [] v.tag = "FreeVar" -> UnknownValue(v, "unknown global")
      [] v.tag = "Module" /\ v.name = "path" -> WellKnown("WellKnownObject", "PathModule")
      [] v.tag = "Module" /\ v.name \in {"fs", "fs/promises"} ->
             WellKnown("WellKnownObject", "FsModule")
      [] v.tag = "Module" /\ v.name = "child_process" ->
             WellKnown("WellKnownObject", "ChildProcess")
      [] v.tag = "Module" /\ v.name = "os" -> WellKnown("WellKnownObject", "OsModule")
      [] v.tag = "Module" /\ v.name = "process" ->
             WellKnown("WellKnownObject", "NodeProcess")
      [] v.tag = "Argument" ->
             UnknownValue(v, "cross function analyzing is not yet supported")
      [] OTHER -> UnknownValue(v, "cross module analyzing is not yet supported")

\* C22: the visitor's rules are matched in order, the first match winning:
\* FreeVar(Dirname) and FreeVar(Filename) become "/ROOT/" followed by the
\* source's parent path and the source's path; FreeVar(Require), (Import),
\* (NodeProcess) become the well-known function or object; any other FreeVar
\* becomes Unknown "unknown global"; the six module names become their
\* well-known objects; Argument becomes Unknown "cross function analyzing is
\* not yet supported"; each returns modified = true; and only a value none of
\* the rules matches gets what the structural and builtin reductions return.
C22_FirstMatchWins ==
    Lowered =>
        /\ lowering_input.tag \in {"FreeVar", "Module", "Argument"} =>
               lowered[1] = <<RuleValue(lowering_input), TRUE>>
        /\ MatchesOwnRule(lowering_input) => lowered[1][2]
        /\ ~MatchesOwnRule(lowering_input) =>
               lowered[1] = <<normalize_shallow(
                                  replace_builtin(replace_well_known(lowering_input)[1])[1]),
                              \/ replace_well_known(lowering_input)[2]
                              \/ replace_builtin(replace_well_known(lowering_input)[1])[2]>>

C22_Witness ==
    /\ lowering_input = [tag |-> "FreeVar", name |-> "Filename", args |-> <<>>]
    /\ lowered = <<<<StringValue("/ROOT/src/index.js"), TRUE>>,
                   <<StringValue("/ROOT/src/index.js"), FALSE>>>>

\* the value handed to the visitor is a call of require.resolve
IsResolveCall(v) ==
    v.tag = "JsCall" /\ v.args[1] = WellKnown("WellKnownFunction", "RequireResolve")
\* what the claim gives for require.resolve(x), from the resolver's answer for
\* the pattern of x
ResolveCallValue(call, pat, answer) ==
    CASE answer.result = "Single" -> StringValue("/ROOT/" \o answer.assets[1])
      [] answer.result = "Alternatives" ->
             [tag |-> "Alternatives", name |-> "",
              args |-> [i \in DOMAIN answer.assets |->
                            StringValue("/ROOT/" \o answer.assets[i])]]
      [] OTHER -> UnknownValue(call, "unresolveable request " \o PatternText(pat))

\* C23: lowering a Call of WellKnownFunction(RequireResolve) never leaves a
\* Call: with exactly one argument it gives the "/ROOT/"-prefixed path when
\* the resolver answers a single asset, the Alternatives of such paths when it
\* answers several, and Unknown(call, "unresolveable request <pattern>")
\* otherwise; with any other number of arguments, none included, it gives
\* Unknown(call, "only a single argument is supported") and the resolver is
\* not called, so a failing resolver does not make it fail.
C23_RequireResolveLowered ==
    (Len(lowered) >= 1 /\ IsResolveCall(lowering_input)) =>
        /\ lowered[1][1].tag # "JsCall"
        /\ lowered[1][2]
        /\ IF Len(lowering_input.args) = 2
           THEN IF failing.point = "resolve"
                THEN lowered[1][1] = LinkFailure
                ELSE lowered[1][1] =
                         ResolveCallValue(
                             lowering_input,
                             js_value_to_pattern(lowering_input.args[2]),
                             ResolverAnswer(js_value_to_pattern(lowering_input.args[2])))
           ELSE lowered[1][1] =
                    UnknownValue(lowering_input, "only a single argument is supported")

C23_Witness ==
    /\ IsResolveCall(lowering_input)
    /\ Len(lowering_input.args) = 2
    /\ lowering_input.args[2] = StringValue("pkg")
    /\ Len(lowered) = 2
    /\ lowered[1][1].tag = "Alternatives"
    /\ Len(lowered[1][1].args) = 2

\* the value is matched by the RequireResolve, FreeVar, Module or Argument rule
MatchedByRule(v) ==
    \/ v.tag \in {"FreeVar", "Module", "Argument"}
    \/ IsResolveCall(v)

\* C24: the visitor is confluent: applying value_visitor to the value it
\* returned gives that value back with modified = FALSE, and no output of the
\* RequireResolve, FreeVar, Module or Argument rule is matched by one of those
\* rules again, so the linker's re-entry after modified = TRUE ends.
C24_Confluent ==
    /\ (Len(lowered) = 2) => lowered[2] = <<lowered[1][1], FALSE>>
    /\ (Len(lowered) >= 1 /\ MatchedByRule(lowering_input)
            /\ lowered[1][1] # LinkFailure)
           => ~MatchedByRule(lowered[1][1])

C24_Witness ==
    /\ lowering_input =
           [tag |-> "JsCall", name |-> "",
            args |-> <<WellKnown("WellKnownFunction", "PathJoin"),
                       StringValue("./a"), StringValue("pkg")>>]
    /\ Len(lowered) = 2
    /\ lowered[1][2]
    /\ lowered[1][1] # lowering_input
    /\ lowered[2] = <<lowered[1][1], FALSE>>

\* the buffered diagnostics are in the order of their spans
DiagnosticsInSpanOrder ==
    \A i \in DOMAIN diagnostics : \A j \in DOMAIN diagnostics :
        i <= j => diagnostics[i].span <= diagnostics[j].span
\* a step that raises diagnostics is the handling of the effect the loop is
\* at: it appends them, for that effect's span, and prints nothing; the step
\* that prints comes after the last effect, prints once and raises nothing
BufferedThenOutputOnce ==
    /\ diagnostics' # diagnostics =>
           /\ pc = "effects" /\ ei <= Len(var_graph.effects)
           /\ ~printed /\ ~printed'
           /\ Len(diagnostics') > Len(diagnostics)
           /\ SubSeq(diagnostics', 1, Len(diagnostics)) = diagnostics
           /\ \A k \in (Len(diagnostics) + 1)..Len(diagnostics') :
                  diagnostics'[k].span = var_graph.effects[ei].span
    /\ printed' # printed =>
           /\ ~printed /\ printed'
           /\ pc = "effects" /\ ei > Len(var_graph.effects)
           /\ diagnostics' = diagnostics
           /\ diagnostics # <<>>

\* C25 (as claimed): the diagnostics raised while handling effects are in
\* span order, are output only after the last effect has been handled, and
\* are output whenever at least one was raised.
C25_OutputWheneverRaised ==
    /\ DiagnosticsInSpanOrder
    /\ printed => (pc \in {"return", "done"} /\ ei > Len(var_graph.effects))
    /\ (pc = "done" /\ diagnostics # <<>>) => printed

\* C25 (amended): the diagnostics raised while handling effects are only
\* buffered, in the order the effects are handled, which is span order; they
\* are output once, after the last effect has been handled, exactly when at
\* least one was raised and module_references returns Ok; when an effect's
\* handling answers with an error the buffered diagnostics are never output.
C25_FlushedAfterLastEffect ==
    /\ [](/\ DiagnosticsInSpanOrder
          /\ printed => (pc \in {"return", "done"} /\ ei > Len(var_graph.effects))
          /\ (pc = "done" /\ result = "Ok") => (printed <=> diagnostics # <<>>)
          /\ result = "Err" => ~printed)
    /\ [][BufferedThenOutputOnce]_vars

C25_Witness ==
    /\ pc = "done"
    /\ result = "Ok"
    /\ printed
    /\ Len(diagnostics) >= 2
    /\ diagnostics[1].span < diagnostics[Len(diagnostics)].span
    /\ Len(var_graph.effects) = 2

\* the runtime declarators the traversal has passed
RuntimeDeclaratorsVisited ==
    {i \in RuntimeDeclarators : pc # "visit" \/ i < vi}
\* how many references of a kind the output list holds
CountOf(kind) == Cardinality({i \in DOMAIN references : references[i].kind = kind})
\* whether an item is a call __webpack_require__.C()
IsEntryCall(item) ==
    /\ item.node = "ExprStmt"
    /\ CallCallee(item.expr) = MemberExpr(Ident(WebpackRequire), "C")

\* C26: the marker state holds at most one runtime marker, that of the runtime
\* declarator visited last; so the output list holds at most one WebpackRuntime
\* reference and at most one WebpackEntry reference, however many declarators
\* and `.C` calls the module has, and at most one call span, that of the last
\* declarator, is suppressed in the effect loop.
C26_AtMostOneMarker ==
    /\ pc \in {"visit", "effects", "return", "done"} =>
           IF RuntimeDeclaratorsVisited = {} THEN visitor.webpack_runtime = None
           ELSE LET last == CHOOSE i \in RuntimeDeclaratorsVisited :
                                \A j \in RuntimeDeclaratorsVisited : j <= i
                IN visitor.webpack_runtime =
                       Some([request |-> CallArgs(input.items[last].expr)[1].name,
                             span |-> last])
    /\ CountOf("WebpackRuntime") <= 1
    /\ CountOf("WebpackEntry") <= 1
    /\ ignore_effect_span # None =>
           /\ RuntimeDeclarators # {}
           /\ ignore_effect_span = Some(LastRuntimeDeclarator)
    /\ Cardinality({k \in DOMAIN var_graph.effects :
                       Suppressed(var_graph.effects[k])}) <= 1
    /\ \A i \in RuntimeDeclarators :
           (pc \in {"return", "done"} /\ result # "Err" /\ i # LastRuntimeDeclarator)
               => RefsAt(i) # <<>>

C26_Witness ==
    /\ Returned
    /\ Cardinality(RuntimeDeclarators) = 2
    /\ \E i \in DOMAIN input.items : IsEntryCall(input.items[i])
    /\ CountOf("WebpackRuntime") = 1
    /\ CountOf("WebpackEntry") = 1
    /\ ignore_effect_span = Some(LastRuntimeDeclarator)
    /\ \E i \in RuntimeDeclarators : i # LastRuntimeDeclarator /\ RefsAt(i) # <<>>

====
